---- MODULE Spec2Model ----
(***************************************************************************)
(* Model of the archive-backed module resolver (ZipModuleResolver), the    *)
(* dot-path config accessor (Config / CortexConfig) and the engine         *)
(* orchestrator (OmnibusEngine) of teggle-omnibus.                         *)
(*                                                                         *)
(* Strings that the code takes apart (paths, dotted keys) are sequences of *)
(* one-character strings, so that joining, extension forcing and splitting *)
(* are computed as the code computes them.  Option<T> is a sequence of     *)
(* length 0 (None) or 1 (Some).                                            *)
(***************************************************************************)
EXTENDS Integers, Sequences, FiniteSets, TLC

VARIABLES
    \* ---- ZipModuleResolver (resolver.rs:28-41)
    zip,            \* Option<archive id>
    base_path,      \* Option<path>
    extension,      \* string
    cache_enabled,  \* bool
    cache,          \* BTreeMap<PathBuf, Shared<Module>>
    nextModule,     \* allocation counter giving each new Rc<Module> its identity
    served,         \* per canonical path, the module the last caching resolve returned
    crashed,        \* the process aborted (panic / stack exhaustion)
    last,           \* what the last resolver operation did and returned
    \* ---- threads sharing one resolver built with the lock-protected cache
    pc,             \* per thread, where its resolve call stands
    tcall,          \* per thread, the locals and the result of its resolve call
    zip_borrow,     \* the threads holding a RefMut of the archive cell
    inserts,        \* the cache inserts made by the threads, in order
    \* ---- Config / CortexConfig (config.rs)
    data,           \* the document (rhai Map)
    memo,           \* RefCell<BTreeMap<String, Dynamic>>
    clast,          \* what the last config operation did and returned
    \* ---- OmnibusEngine (engine.rs:22-32)
    rh_engine,      \* Option<the module resolver installed in the interpreter>
    registered,     \* the storage host functions are registered in the interpreter
    storage,        \* the backing key-value store (deps.storage)
    rh_resolver,    \* Option<resolver state held by the engine>
    rh_ast,         \* Option<merged program>
    rh_caches,      \* Option<Caches>
    rh_global,      \* Option<GlobalRuntimeState>
    cfg,            \* Option<CortexConfig>
    loads,          \* number of load_core calls made on the engine
    elast           \* what the last engine operation did and returned

rvars == <<zip, base_path, extension, cache_enabled, cache, nextModule, served, crashed, last>>
cvars == <<data, memo, clast>>
evars == <<rh_engine, registered, storage, rh_resolver, rh_ast, rh_caches, rh_global, cfg, loads,
           elast>>
tvars == <<pc, tcall, zip_borrow, inserts>>
vars == <<rvars, cvars, evars, tvars>>

\* ---------------------------------------------------------------- Option
None == <<>>
Some(x) == <<x>>
IsSome(o) == o /= <<>>
Unwrap(o) == o[1]

\* BTreeMap::new()
EmptyMap == <<>>

\* ---------------------------------------------------------------- bounds
\* Number of module instances (Rc<Module>) the model lets a run allocate.
MaxModules == 2
\* Depth of nested resolve calls the stack holds before the process aborts.
MaxDepth == 3
\* Number of load_core calls the model lets a run make on one engine.
MaxLoads == 2
\* Number of segments of the key paths storage_set is called with.
MaxSegs == 2
\* Number of keys the backing store holds before the model stops calling
\* storage_set directly.
MaxStored == 2

\* ---------------------------------------------------------------- paths
SEP == "/"
DOT == "."

RHAI_EXTENSION == <<"r", "h", "a", "i">>
JSON_EXTENSION == <<"j", "s", "o", "n">>
CFG_FILE == <<"c", "o", "n", "f", "i", "g">>

\* Index of the last occurrence of character c in s, 0 when there is none.
RECURSIVE LastIndexOf(_, _, _)
LastIndexOf(s, c, i) ==
    IF i = 0 THEN 0
    ELSE IF s[i] = c THEN i
    ELSE LastIndexOf(s, c, i - 1)

\* Path::is_absolute on unix: the path has a root.
is_absolute(p) == Len(p) > 0 /\ p[1] = SEP

is_relative(p) == ~is_absolute(p)

\* PathBuf::push: an absolute argument replaces the buffer, otherwise it is
\* appended, with a separator when the buffer does not end in one.
push(buf, p) ==
    IF is_absolute(p) THEN p
    ELSE IF Len(buf) > 0 /\ buf[Len(buf)] /= SEP THEN buf \o <<SEP>> \o p
    ELSE buf \o p

\* The path with the trailing separators and trailing "." components that
\* Components skips removed; the root itself is kept.
RECURSIVE trim_trailing(_)
trim_trailing(p) ==
    IF Len(p) >= 2 /\ p[Len(p)] = SEP
        THEN trim_trailing(SubSeq(p, 1, Len(p) - 1))
    ELSE IF Len(p) >= 2 /\ p[Len(p)] = DOT /\ p[Len(p) - 1] = SEP
        THEN trim_trailing(SubSeq(p, 1, Len(p) - 1))
    ELSE p

\* Path::file_name: the last component when it is a normal one.
file_name(p) ==
    LET t == trim_trailing(p)
        k == LastIndexOf(t, SEP, Len(t))
        n == SubSeq(t, k + 1, Len(t))
    IN  IF n = <<>> \/ n = <<DOT>> \/ n = <<DOT, DOT>> THEN None ELSE Some(n)

\* Path::file_stem: the file name up to its last dot; a name whose only dot
\* is the leading one is all stem.
file_stem(p) ==
    LET fn == file_name(p)
    IN  IF ~IsSome(fn) THEN None
        ELSE LET n == Unwrap(fn)
                 d == LastIndexOf(n, DOT, Len(n))
             IN  IF d <= 1 THEN Some(n) ELSE Some(SubSeq(n, 1, d - 1))

\* Mutant of set_extension: the extension is added only to a file name
\* that has none.
set_extension_if_none(p, ext) ==
    LET fn == file_name(p)
    IN  IF ~IsSome(fn) THEN p
        ELSE IF LastIndexOf(Unwrap(fn), DOT, Len(Unwrap(fn))) > 1 THEN p
        ELSE IF ext = <<>> THEN p ELSE trim_trailing(p) \o <<DOT>> \o ext

\* PathBuf::set_extension: truncate right after the file stem, then append
\* "." and the extension when it is not empty.  No file name: no change.
set_extension(p, ext) ==
    LET st == file_stem(p)
    IN  IF ~IsSome(st) THEN p
        ELSE LET t == trim_trailing(p)
                 k == LastIndexOf(t, SEP, Len(t))
                 kept == SubSeq(t, 1, k + Len(Unwrap(st)))
             IN  IF ext = <<>> THEN kept ELSE kept \o <<DOT>> \o ext

\* Path::parent: the path without its last component; None for the root
\* and for the empty path.
parent(p) ==
    LET t == trim_trailing(p)
        k == LastIndexOf(t, SEP, Len(t))
    IN  IF t = <<>> \/ t = <<SEP>> THEN None
        ELSE IF k = 0 THEN Some(<<>>)
        ELSE IF k = 1 THEN Some(<<SEP>>)
        ELSE Some(trim_trailing(SubSeq(t, 1, k - 1)))

\* ---------------------------------------------------------------- archives
\* Path and key literals.
P_foo == <<"f", "o", "o">>
P_foo_txt == <<"f", "o", "o", ".", "t", "x", "t">>
P_foo_rhai == <<"f", "o", "o", ".", "r", "h", "a", "i">>
P_abs_foo == <<"/", "f", "o", "o">>
P_m == <<"m">>
P_e == <<"e">>
P_c == <<"c">>
P_u == <<"u">>
P_x == <<"x">>
P_z == <<"z">>
P_sub == <<"s", "u", "b">>
P_lib == <<"l", "i", "b">>
P_main == <<"m", "a", "i", "n">>
P_sub_m == <<"s", "u", "b", "/", "m">>
F_foo_rhai == <<"f", "o", "o", ".", "r", "h", "a", "i">>
F_foo_x == <<"f", "o", "o", ".", "x">>
F_sub_foo_rhai == <<"s", "u", "b", "/", "f", "o", "o", ".", "r", "h", "a", "i">>
F_lib_foo_rhai == <<"l", "i", "b", "/", "f", "o", "o", ".", "r", "h", "a", "i">>
F_m_rhai == <<"m", ".", "r", "h", "a", "i">>
F_e_rhai == <<"e", ".", "r", "h", "a", "i">>
F_c_rhai == <<"c", ".", "r", "h", "a", "i">>
F_u_rhai == <<"u", ".", "r", "h", "a", "i">>
F_x_rhai == <<"x", ".", "r", "h", "a", "i">>

\* A script file: whether its bytes are UTF-8, whether the source compiles,
\* and the top-level statements of the compiled unit that matter to
\* resolution: imports and a raised error.
Import(p) == [op |-> "import", path |-> p]
Throw == [op |-> "throw", path |-> <<>>]
Script(stmts) == [utf8 |-> TRUE, parses |-> TRUE, stmts |-> stmts]
BadSyntax == [utf8 |-> TRUE, parses |-> FALSE, stmts |-> <<>>]
NotUtf8 == [utf8 |-> FALSE, parses |-> FALSE, stmts |-> <<>>]

\* The archives a resolver can be loaded with: file name -> file.
\*   foo.rhai      a plain module          sub/foo.rhai, lib/foo.rhai  the same name in directories
\*   m.rhai        imports foo             e.rhai        imports foo, then raises
\*   c.rhai        does not compile        u.rhai        is not UTF-8
\*   x.rhai        imports itself          foo.x         a module under extension "x"
Archive1 ==
    (F_foo_rhai :> Script(<<>>))
    @@ (F_sub_foo_rhai :> Script(<<>>))
    @@ (F_lib_foo_rhai :> Script(<<>>))
    @@ (F_m_rhai :> Script(<<Import(P_foo)>>))
    @@ (F_e_rhai :> Script(<<Import(P_foo), Throw>>))
    @@ (F_c_rhai :> BadSyntax)
    @@ (F_u_rhai :> NotUtf8)
    @@ (F_x_rhai :> Script(<<Import(P_x)>>))
    @@ (F_foo_x :> Script(<<>>))

\*   foo.rhai      a plain module          m.rhai        raises
Archive2 ==
    (F_foo_rhai :> Script(<<>>))
    @@ (F_m_rhai :> Script(<<Throw>>))

Archives == <<Archive1, Archive2>>

\* Inputs of the resolver operations.
ImportPaths == {P_foo, P_foo_txt, P_foo_rhai, P_abs_foo, P_m, P_e, P_c, P_u, P_x, P_z}
CachePaths == {P_foo, P_m, P_z}
RawPaths == {P_foo, P_e, P_x}
AstPaths == {P_foo, P_c, P_z}
EntryPaths == {P_foo, P_c}
SourcePaths == {None, Some(P_sub_m)}
BasePaths == {P_lib}
Extensions == {RHAI_EXTENSION, <<"x">>}

\* ---------------------------------------------------------------- resolver
\* ZipModuleResolver::loaded
loaded(z) == IsSome(z)

\* Mutant of get_file_path: the requesting module's directory is tried
\* before the configured base path.
get_file_path_source_first(base, ext, path, source_path, custom_extension) ==
    LET file_path ==
            IF is_relative(path)
            THEN push(IF IsSome(source_path) THEN Unwrap(source_path)
                      ELSE IF IsSome(base) THEN Unwrap(base)
                      ELSE <<>>,
                      path)
            ELSE path
    IN  IF IsSome(custom_extension)
        THEN set_extension(file_path, Unwrap(custom_extension))
        ELSE set_extension(file_path, ext)

\* ZipModuleResolver::get_file_path
get_file_path(base, ext, path, source_path, custom_extension) ==
    LET file_path ==
            IF is_relative(path)
            THEN push(IF IsSome(base) THEN Unwrap(base)
                      ELSE IF IsSome(source_path) THEN Unwrap(source_path)
                      ELSE <<>>,
                      path)
            ELSE path
    IN  IF IsSome(custom_extension)
        THEN set_extension(file_path, Unwrap(custom_extension))
        ELSE set_extension(file_path, ext)

\* ZipModuleResolver::get_source_path
get_source_path(base, ext, path, source_path) ==
    get_file_path(base, ext, path, source_path, Some(RHAI_EXTENSION))

\* ZipModuleResolver::get_file: the source text or a ResolverError.
get_file(z, file_path) ==
    IF ~loaded(z) THEN [ok |-> FALSE, err |-> "NotReady", touched |-> FALSE]
    ELSE IF file_path \notin DOMAIN Archives[Unwrap(z)]
        THEN [ok |-> FALSE, err |-> "FileNotFound", touched |-> TRUE]
    ELSE IF ~Archives[Unwrap(z)][file_path].utf8
        THEN [ok |-> FALSE, err |-> "FileReadFailed", touched |-> TRUE]
    ELSE [ok |-> TRUE, err |-> "", touched |-> TRUE]

\* ZipModuleResolver::compile_with_scope: whether the source compiles.
compile_with_scope(z, file_path) == Archives[Unwrap(z)][file_path].parses

\* The error a failed get_file becomes in impl_resolve (resolver.rs:449-452).
map_get_file_err(err, path) ==
    [kind |-> "ErrorModuleNotFound", path |-> path, inner |-> ""]

\* The cache insert of a successful resolve (resolver.rs:479-481).
cache_insert(c, enabled, file_path, m) ==
    IF enabled THEN [k \in DOMAIN c \cup {file_path} |-> IF k = file_path THEN m ELSE c[k]]
    ELSE c

\* Mutant of cache_lookup: the cache_enabled test is inverted.
cache_lookup_inverted(c, enabled, file_path) ==
    IF ~enabled /\ file_path \in DOMAIN c THEN Some(c[file_path]) ELSE None

\* The cache lookup of impl_resolve (resolver.rs:438-447).
cache_lookup(c, enabled, file_path) ==
    IF enabled /\ file_path \in DOMAIN c THEN Some(c[file_path]) ELSE None

NoErr == [kind |-> "", path |-> <<>>, inner |-> ""]

LogEntry(fp, m, r) == [file_path |-> fp, module |-> m, read |-> r]

\* The outcome of one impl_resolve call: out = "ok" | "err" | "abort" (the
\* stack is exhausted), the error returned and the ResolverError behind it,
\* the module returned, the state after (st), and what the call did.
Outcome(out, err, cause, module, st, file_path, hit, read, compiled) ==
    [out |-> out, err |-> err, cause |-> cause, module |-> module, st |-> st,
     file_path |-> file_path, hit |-> hit, read |-> read, compiled |-> compiled]

\* The source path of impl_resolve (resolver.rs:429-433): the parent of the
\* global source, else of the source argument.
source_path_of(gsrc, src) ==
    IF IsSome(gsrc) THEN parent(Unwrap(gsrc))
    ELSE IF IsSome(src) THEN parent(Unwrap(src))
    ELSE None

\* The module Module::eval_ast_as_new makes of the unit compiled from
\* file_path of the loaded archive: a new instance (id), tagged with the
\* source set on the unit, which is the import path as written.
new_module(id, z, file_path, path) ==
    [id |-> id, arch |-> Unwrap(z), file |-> file_path, source |-> path]

\* Mutant of impl_resolve_evaluated: the module is inserted before the
\* evaluation result is examined, so a failed evaluation is cached too.
impl_resolve_evaluated_early_insert(z, enabled, st, path, file_path, ev) ==
    IF ev.out = "abort"
    THEN Outcome("abort", NoErr, ev.cause, None, st, file_path, FALSE, TRUE, TRUE)
    ELSE IF ev.out = "err"
    THEN Outcome("err", [kind |-> "ErrorInModule", path |-> path, inner |-> "EvalError"],
                 "EvalError", None,
                 [ev.st EXCEPT !.cache = cache_insert(@, enabled, file_path,
                                             new_module(ev.st.next, z, file_path, path)),
                               !.next = @ + 1],
                 file_path, FALSE, TRUE, TRUE)
    ELSE Outcome("ok", NoErr, "", Some(new_module(ev.st.next, z, file_path, path)),
                 [cache |-> cache_insert(ev.st.cache, enabled, file_path,
                                         new_module(ev.st.next, z, file_path, path)),
                  next |-> ev.st.next + 1,
                  log |-> Append(ev.st.log,
                                 LogEntry(file_path,
                                          new_module(ev.st.next, z, file_path, path), TRUE)),
                  guards |-> ev.st.guards],
                 file_path, FALSE, TRUE, TRUE)

\* The end of impl_resolve (resolver.rs:467-483) once the compiled unit has
\* been evaluated with outcome ev: the new module is inserted and returned.
\* The insert takes a write guard on the cache, which panics while another
\* guard on it is alive.
impl_resolve_evaluated(z, enabled, st, path, file_path, ev) ==
    IF ev.out = "abort"
    THEN Outcome("abort", NoErr, ev.cause, None, st, file_path, FALSE, TRUE, TRUE)
    ELSE IF ev.out = "err"
    THEN Outcome("err", [kind |-> "ErrorInModule", path |-> path, inner |-> "EvalError"],
                 "EvalError", None, ev.st, file_path, FALSE, TRUE, TRUE)
    ELSE IF enabled /\ "cache" \in ev.st.guards
    THEN Outcome("abort", NoErr, "BorrowMutError", None, st, file_path, FALSE, TRUE, TRUE)
    ELSE Outcome("ok", NoErr, "", Some(new_module(ev.st.next, z, file_path, path)),
                 [cache |-> cache_insert(ev.st.cache, enabled, file_path,
                                         new_module(ev.st.next, z, file_path, path)),
                  next |-> ev.st.next + 1,
                  log |-> Append(ev.st.log,
                                 LogEntry(file_path,
                                          new_module(ev.st.next, z, file_path, path), TRUE)),
                  guards |-> ev.st.guards],
                 file_path, FALSE, TRUE, TRUE)

\* A guard (Ref or RefMut) on a cell of the resolver is taken: st.guards
\* holds the cells with a live guard.
borrow(st, cell) == [st EXCEPT !.guards = @ \cup {cell}]

\* Mutant of drop_guard: the guard stays alive.
drop_guard_kept(st, cell) == st

\* The guard on a cell goes out of scope.
drop_guard(st, cell) == [st EXCEPT !.guards = @ \ {cell}]

\* The cache lookup block (resolver.rs:438-447) as far as guards go: with
\* caching enabled a read guard is taken, and dropped at the end of the block.
cache_looked_up(st, enabled) ==
    IF enabled THEN drop_guard(borrow(st, "cache"), "cache") ELSE st

\* ZipModuleResolver::impl_resolve, with the evaluation of the compiled unit
\* (Module::eval_ast_as_new), whose import statements call resolve_raw on the
\* same resolver with the importing unit's source as global source.
\*   st     [cache, next, log, guards]: the cache, the allocation counter,
\*          the log of the modules returned by the calls that completed so
\*          far, and the cells of the resolver with a live guard
\*   gsrc   global.source(), src: the source argument
RECURSIVE impl_resolve(_, _, _, _, _, _, _, _, _)
RECURSIVE impl_resolve_path(_, _, _, _, _, _, _, _)
RECURSIVE impl_resolve_miss(_, _, _, _, _, _, _, _, _)
RECURSIVE eval_ast_as_new(_, _, _, _, _, _, _, _, _)
RECURSIVE eval_import(_, _, _, _, _, _, _, _, _)
impl_resolve(z, base, ext, enabled, st, gsrc, src, path, depth) ==
    impl_resolve_path(z, base, ext, enabled, st, path, depth,
                      get_file_path(base, ext, path, source_path_of(gsrc, src), None))

\* impl_resolve from the cache check on (resolver.rs:438-447): the read
\* guard `c` on the cache lives to the end of the `if` block; on a miss
\* get_file takes its guard on the archive (329), which panics while another
\* one is alive, and drops it when it returns.
impl_resolve_path(z, base, ext, enabled, st, path, depth, file_path) ==
    IF depth > MaxDepth
    THEN Outcome("abort", NoErr, "StackOverflow", None, st, file_path, FALSE, FALSE, FALSE)
    ELSE IF IsSome(cache_lookup(st.cache, enabled, file_path))
    THEN Outcome("ok", NoErr, "", cache_lookup(st.cache, enabled, file_path),
                 [cache_looked_up(st, enabled)
                     EXCEPT !.log = Append(@, LogEntry(file_path, st.cache[file_path], FALSE))],
                 file_path, TRUE, FALSE, FALSE)
    ELSE IF loaded(z) /\ "zip" \in cache_looked_up(st, enabled).guards
    THEN Outcome("abort", NoErr, "BorrowMutError", None, st, file_path, FALSE, FALSE, FALSE)
    ELSE impl_resolve_miss(z, base, ext, enabled,
                           drop_guard(borrow(cache_looked_up(st, enabled), "zip"), "zip"),
                           path, depth, file_path, get_file(z, file_path))

\* impl_resolve on a cache miss, `script` being what get_file returned
\* (resolver.rs:449-477).
impl_resolve_miss(z, base, ext, enabled, st, path, depth, file_path, script) ==
    IF ~script.ok
    THEN Outcome("err", map_get_file_err(script.err, path), script.err, None, st,
                 file_path, FALSE, script.touched, FALSE)
    ELSE IF ~compile_with_scope(z, file_path)
    THEN Outcome("err", [kind |-> "ErrorInModule", path |-> path, inner |-> "ParseError"],
                 "ParseError", None, st, file_path, FALSE, TRUE, FALSE)
    ELSE impl_resolve_evaluated(z, enabled, st, path, file_path,
             eval_ast_as_new(z, base, ext, enabled, st,
                             Archives[Unwrap(z)][file_path].stmts, 1, path, depth))

\* Module::eval_ast_as_new on the unit compiled from `self_path`: run the
\* statements from index i on; an import resolves through the resolver.
eval_ast_as_new(z, base, ext, enabled, st, stmts, i, self_path, depth) ==
    IF i > Len(stmts) THEN [out |-> "ok", st |-> st, cause |-> ""]
    ELSE IF stmts[i].op = "throw" THEN [out |-> "err", st |-> st, cause |-> "EvalError"]
    ELSE eval_import(z, base, ext, enabled, stmts, i, self_path, depth,
                     impl_resolve(z, base, ext, enabled, st, Some(self_path), None,
                                  stmts[i].path, depth + 1))

\* The import statement i once its module resolved with outcome r.
eval_import(z, base, ext, enabled, stmts, i, self_path, depth, r) ==
    IF r.out = "ok"
    THEN eval_ast_as_new(z, base, ext, enabled, r.st, stmts, i + 1, self_path, depth)
    ELSE [out |-> r.out, st |-> r.st, cause |-> r.cause]

\* ---------------------------------------------------------------- resolver operations
\* What `served` holds for a path: a served module id, or nothing (never
\* served, or cleared since).
NeverServed == [state |-> "never", id |-> 0]

served_for(sv, k) == IF k \in DOMAIN sv THEN sv[k] ELSE NeverServed

\* The record an operation leaves in `last`.
LastOf(op) ==
    [op |-> op, path |-> <<>>, src |-> None, file_path |-> <<>>, out |-> "ok",
     err |-> NoErr, cause |-> "", module |-> None, hit |-> FALSE, read |-> FALSE,
     compiled |-> FALSE, log |-> <<>>, flag |-> FALSE, prev |-> NeverServed,
     after_clear |-> FALSE]

\* BTreeMap::remove_entry / clear on the cache.
cache_remove(c, k) ==
    IF DOMAIN c \ {k} = {} THEN EmptyMap ELSE [x \in DOMAIN c \ {k} |-> c[x]]

cache_clear(c) == EmptyMap

\* `served` after the calls of `log`, in order: each call that returned a
\* module for a path makes that module the one served for the path.
RECURSIVE serve_log(_, _, _)
serve_log(sv, log, i) ==
    IF i > Len(log) THEN sv
    ELSE serve_log([k \in DOMAIN sv \cup {log[i].file_path} |->
                        IF k = log[i].file_path
                        THEN [state |-> "served", id |-> log[i].module.id]
                        ELSE sv[k]],
                   log, i + 1)

\* `served` after a clear of the paths ks: nothing is served for them any more.
serve_clear(sv, ks) ==
    IF DOMAIN sv \ ks = {} THEN EmptyMap ELSE [k \in DOMAIN sv \ ks |-> sv[k]]

\* ZipModuleResolver::load with the bytes of archive a.
load(a) ==
    /\ ~crashed
    /\ zip' = Some(a)
    /\ last' = LastOf("load")
    /\ UNCHANGED <<base_path, extension, cache_enabled, cache, nextModule, served, crashed>>
    /\ UNCHANGED <<cvars, evars, tvars>>

\* ZipModuleResolver::load with bytes that are no zip archive.
load_invalid ==
    /\ ~crashed
    /\ last' = [LastOf("load") EXCEPT !.out = "err", !.cause = "InvalidZip"]
    /\ UNCHANGED <<zip, base_path, extension, cache_enabled, cache, nextModule, served, crashed>>
    /\ UNCHANGED <<cvars, evars, tvars>>

\* ZipModuleResolver::enable_cache
enable_cache(b) ==
    /\ ~crashed
    /\ cache_enabled' = b
    /\ last' = LastOf("enable_cache")
    /\ UNCHANGED <<zip, base_path, extension, cache, nextModule, served, crashed>>
    /\ UNCHANGED <<cvars, evars, tvars>>

\* ZipModuleResolver::is_cached
is_cached(path, source_path) ==
    /\ ~crashed
    /\ LET file_path == get_file_path(base_path, extension, path, source_path, None)
       IN  last' = [LastOf("is_cached") EXCEPT !.path = path, !.src = source_path,
                       !.file_path = file_path,
                       !.flag = cache_enabled /\ file_path \in DOMAIN cache]
    /\ UNCHANGED <<zip, base_path, extension, cache_enabled, cache, nextModule, served, crashed>>
    /\ UNCHANGED <<cvars, evars, tvars>>

\* ZipModuleResolver::clear_cache
clear_cache ==
    /\ ~crashed
    /\ cache' = cache_clear(cache)
    /\ served' = serve_clear(served, DOMAIN served)
    /\ last' = LastOf("clear_cache")
    /\ UNCHANGED <<zip, base_path, extension, cache_enabled, nextModule, crashed>>
    /\ UNCHANGED <<cvars, evars, tvars>>

\* ZipModuleResolver::clear_cache_for_path
clear_cache_for_path(path, source_path) ==
    /\ ~crashed
    /\ LET file_path == get_file_path(base_path, extension, path, source_path, None)
       IN  /\ cache' = cache_remove(cache, file_path)
           /\ served' = serve_clear(served, {file_path})
           /\ last' = [LastOf("clear_cache_for_path") EXCEPT !.path = path,
                          !.src = source_path, !.file_path = file_path,
                          !.module = IF file_path \in DOMAIN cache
                                     THEN Some(cache[file_path]) ELSE None]
    /\ UNCHANGED <<zip, base_path, extension, cache_enabled, nextModule, crashed>>
    /\ UNCHANGED <<cvars, evars, tvars>>

\* The state change of a resolve call whose result is r.
resolved(op, r, path, src) ==
    /\ r.st.next <= MaxModules + 1
    /\ crashed' = (r.out = "abort")
    /\ cache' = IF r.out = "abort" THEN cache ELSE r.st.cache
    /\ nextModule' = IF r.out = "abort" THEN nextModule ELSE r.st.next
    /\ served' = IF r.out /= "abort" /\ cache_enabled
                 THEN serve_log(served, r.st.log, 1) ELSE served
    /\ last' = [LastOf(op) EXCEPT !.path = path, !.src = src, !.file_path = r.file_path,
                   !.out = r.out, !.err = r.err, !.cause = r.cause, !.module = r.module,
                   !.hit = r.hit, !.read = r.read, !.compiled = r.compiled,
                   !.log = r.st.log, !.prev = served_for(served, r.file_path),
                   !.after_clear = (last.op = "clear_cache")]
    /\ UNCHANGED <<zip, base_path, extension, cache_enabled>>
    /\ UNCHANGED <<cvars, evars, tvars>>

\* ModuleResolver::resolve (resolver.rs:490-498)
resolve(source, path) ==
    /\ ~crashed
    /\ resolved("resolve",
                impl_resolve(zip, base_path, extension, cache_enabled,
                             [cache |-> cache, next |-> nextModule, log |-> <<>>,
                              guards |-> {}],
                             None, source, path, 1),
                path, source)

\* ModuleResolver::resolve_raw (resolver.rs:500-508)
resolve_raw(global_source, path) ==
    /\ ~crashed
    /\ resolved("resolve_raw",
                impl_resolve(zip, base_path, extension, cache_enabled,
                             [cache |-> cache, next |-> nextModule, log |-> <<>>,
                              guards |-> {}],
                             global_source, None, path, 1),
                path, global_source)

\* Mutant of resolve_ast_compile: a cached path is answered without reading
\* the archive.
resolve_ast_compile_cached(z, c, path, file_path, script) ==
    IF file_path \in DOMAIN c
    THEN Outcome("ok", NoErr, "", None, [cache |-> c], file_path, TRUE, FALSE, FALSE)
    ELSE IF ~script.ok
    THEN Outcome("abort", NoErr, script.err, None, [cache |-> c], file_path, FALSE,
                 script.touched, FALSE)
    ELSE IF ~compile_with_scope(z, file_path)
    THEN Outcome("err", [kind |-> "ErrorInModule", path |-> path, inner |-> "ParseError"],
                 "ParseError", None, [cache |-> c], file_path, FALSE, TRUE, TRUE)
    ELSE Outcome("ok", NoErr, "", None, [cache |-> c], file_path, FALSE, TRUE, TRUE)

\* The body of ModuleResolver::resolve_ast from get_file on: a failed
\* get_file is unwrapped and panics; the source is compiled, never evaluated,
\* and the cache is neither consulted nor written.
resolve_ast_compile(z, c, path, file_path, script) ==
    IF ~script.ok
    THEN Outcome("abort", NoErr, script.err, None, [cache |-> c], file_path, FALSE,
                 script.touched, FALSE)
    ELSE IF ~compile_with_scope(z, file_path)
    THEN Outcome("err", [kind |-> "ErrorInModule", path |-> path, inner |-> "ParseError"],
                 "ParseError", None, [cache |-> c], file_path, FALSE, TRUE, TRUE)
    ELSE Outcome("ok", NoErr, "", None, [cache |-> c], file_path, FALSE, TRUE, TRUE)

\* The state change of a resolve_ast call whose result is r.
resolved_ast(r, path, source_path) ==
    /\ crashed' = (r.out = "abort")
    /\ cache' = r.st.cache
    /\ last' = [LastOf("resolve_ast") EXCEPT !.path = path, !.src = source_path,
                   !.file_path = r.file_path, !.out = r.out, !.err = r.err,
                   !.cause = r.cause, !.read = r.read, !.compiled = r.compiled]

\* ModuleResolver::resolve_ast (resolver.rs:513-541)
resolve_ast(source_path, path) ==
    /\ ~crashed
    /\ resolved_ast(resolve_ast_compile(zip, cache, path,
                        get_file_path(base_path, extension, path, source_path, None),
                        get_file(zip, get_file_path(base_path, extension, path, source_path,
                                                    None))),
                    path, source_path)
    /\ UNCHANGED <<zip, base_path, extension, cache_enabled, nextModule, served>>
    /\ UNCHANGED <<cvars, evars, tvars>>

\* compile_path_with_scope once get_file returned `source` for source_path
\* (resolver.rs:381-387).
compile_path_read(z, path, source_path, source) ==
    IF ~source.ok
    THEN Outcome("err", NoErr, source.err, None, [cache |-> <<>>], source_path, FALSE,
                 source.touched, FALSE)
    ELSE IF ~compile_with_scope(z, source_path)
    THEN Outcome("err", NoErr, "SourceCompileFailed", None, [cache |-> <<>>], source_path,
                 FALSE, TRUE, TRUE)
    ELSE Outcome("ok", NoErr, "", None, [cache |-> <<>>], source_path, FALSE, TRUE, TRUE)

\* A call of ZipModuleResolver::compile_path_with_scope with an entrypoint
\* name: the file is located with get_source_path, read and compiled.
compile_path(path) ==
    /\ ~crashed
    /\ LET r == compile_path_read(zip, path,
                                  get_source_path(base_path, extension, path, None),
                                  get_file(zip, get_source_path(base_path, extension, path,
                                                                None)))
       IN  last' = [LastOf("compile_path_with_scope") EXCEPT !.path = path,
                       !.file_path = r.file_path, !.out = r.out, !.cause = r.cause,
                       !.read = r.read, !.compiled = r.compiled]
    /\ UNCHANGED <<zip, base_path, extension, cache_enabled, cache, nextModule, served, crashed>>
    /\ UNCHANGED <<cvars, evars, tvars>>

\* ZipModuleResolver::new, new_with_extension, new_with_path_and_extension
InitResolver ==
    /\ zip = None
    /\ base_path \in {None} \cup {Some(p) : p \in BasePaths}
    /\ extension \in Extensions
    /\ cache_enabled = TRUE
    /\ cache = EmptyMap
    /\ nextModule = 1
    /\ served = EmptyMap
    /\ crashed = FALSE
    /\ last = [op |-> "new", path |-> <<>>, src |-> None, file_path |-> <<>>, out |-> "ok",
               err |-> NoErr, cause |-> "", module |-> None, hit |-> FALSE, read |-> FALSE,
               compiled |-> FALSE, log |-> <<>>, flag |-> FALSE, prev |-> NeverServed,
     after_clear |-> FALSE]

NextResolver ==
    \/ \E a \in 1..Len(Archives) : load(a)
    \/ load_invalid
    \/ \E b \in BOOLEAN : enable_cache(b)
    \/ \E p \in CachePaths : is_cached(p, None)
    \/ clear_cache
    \/ \E p \in CachePaths : clear_cache_for_path(p, None)
    \/ \E p \in ImportPaths, s \in SourcePaths : resolve(s, p)
    \/ \E p \in RawPaths, s \in SourcePaths : resolve_raw(s, p)
    \/ \E p \in AstPaths, s \in SourcePaths : resolve_ast(s, p)
    \/ \E p \in EntryPaths : compile_path(p)

\* ---------------------------------------------------------------- threads
\* Two threads call resolve on one shared resolver whose cache is the
\* RwLock variant (resolver.rs:39-40).  The archive stays in its RefCell
\* (resolver.rs:29), whose borrow flag is not synchronized: a thread that
\* enters get_file while another holds the RefMut either observes the flag
\* and panics, or misses it and reads through the same cursor.
Threads == {1, 2}

SyncPaths == {P_foo, P_c, P_z}

\* The locals of a resolve call.
TCall(path, file_path) ==
    [path |-> path, file_path |-> file_path, out |-> "", err |-> NoErr, module |-> None,
     hit |-> FALSE, torn |-> FALSE, script |-> [ok |-> FALSE, err |-> "", touched |-> FALSE]]

\* What a read through a cursor another thread moves can return.
TornReads(script) ==
    {script, [ok |-> FALSE, err |-> "FileNotFound", touched |-> TRUE],
     [ok |-> FALSE, err |-> "FileReadFailed", touched |-> TRUE]}

\* impl_resolve on thread t up to the end of the cache lookup
\* (resolver.rs:435-447): the read guard lives for the lookup only.
t_lookup(t, path) ==
    /\ pc[t] = "idle"
    /\ LET file_path == get_file_path(base_path, extension, path, None, None)
           found == cache_lookup(cache, cache_enabled, file_path)
       IN  IF IsSome(found)
           THEN /\ pc' = [pc EXCEPT ![t] = "done"]
                /\ tcall' = [tcall EXCEPT ![t] = [TCall(path, file_path) EXCEPT
                                 !.out = "ok", !.module = found, !.hit = TRUE]]
           ELSE /\ pc' = [pc EXCEPT ![t] = "get_file"]
                /\ tcall' = [tcall EXCEPT ![t] = TCall(path, file_path)]
    /\ UNCHANGED <<zip_borrow, inserts, rvars, cvars, evars>>

\* get_file on thread t up to borrow_mut (resolver.rs:325-330).
t_get_file(t) ==
    /\ pc[t] = "get_file"
    /\ IF ~loaded(zip)
       THEN /\ pc' = [pc EXCEPT ![t] = "done"]
            /\ tcall' = [tcall EXCEPT ![t].out = "err",
                                      ![t].err = map_get_file_err("NotReady", tcall[t].path)]
            /\ UNCHANGED zip_borrow
       ELSE IF zip_borrow = {}
       THEN /\ pc' = [pc EXCEPT ![t] = "reading"]
            /\ zip_borrow' = {t}
            /\ UNCHANGED tcall
       ELSE \/ /\ pc' = [pc EXCEPT ![t] = "panicked"]
               /\ tcall' = [tcall EXCEPT ![t].out = "panic"]
               /\ UNCHANGED zip_borrow
            \/ /\ pc' = [pc EXCEPT ![t] = "reading"]
               /\ zip_borrow' = zip_borrow \cup {t}
               /\ tcall' = [u \in Threads |->
                               IF u \in zip_borrow \cup {t} THEN [tcall[u] EXCEPT !.torn = TRUE]
                               ELSE tcall[u]]
    /\ UNCHANGED <<inserts, rvars, cvars, evars>>

\* The rest of get_file on thread t (resolver.rs:331-345) and the mapping of
\* its error (449-452): the file is read and the RefMut dropped.
t_read(t) ==
    /\ pc[t] = "reading"
    /\ \E script \in IF tcall[t].torn THEN TornReads(get_file(zip, tcall[t].file_path))
                      ELSE {get_file(zip, tcall[t].file_path)} :
          IF script.ok
          THEN /\ pc' = [pc EXCEPT ![t] = "compile"]
               /\ tcall' = [tcall EXCEPT ![t].script = script]
          ELSE /\ pc' = [pc EXCEPT ![t] = "done"]
               /\ tcall' = [tcall EXCEPT ![t].script = script, ![t].out = "err",
                                         ![t].err = map_get_file_err(script.err, tcall[t].path)]
    /\ zip_borrow' = zip_borrow \ {t}
    /\ UNCHANGED <<inserts, rvars, cvars, evars>>

\* compile_with_scope and Module::eval_ast_as_new on thread t
\* (resolver.rs:454-477), for a file without imports.
t_compile(t) ==
    /\ pc[t] = "compile"
    /\ IF ~compile_with_scope(zip, tcall[t].file_path)
       THEN /\ pc' = [pc EXCEPT ![t] = "done"]
            /\ tcall' = [tcall EXCEPT ![t].out = "err",
                             ![t].err = [kind |-> "ErrorInModule", path |-> tcall[t].path,
                                         inner |-> "ParseError"]]
            /\ UNCHANGED nextModule
       ELSE /\ nextModule <= MaxModules
            /\ pc' = [pc EXCEPT ![t] = "insert"]
            /\ tcall' = [tcall EXCEPT ![t].module =
                             Some(new_module(nextModule, zip, tcall[t].file_path, tcall[t].path))]
            /\ nextModule' = nextModule + 1
    /\ UNCHANGED <<zip, base_path, extension, cache_enabled, cache, served, crashed, last>>
    /\ UNCHANGED <<zip_borrow, inserts, cvars, evars>>

\* The cache insert of thread t under the write guard (resolver.rs:479-483).
t_insert(t) ==
    /\ pc[t] = "insert"
    /\ cache' = cache_insert(cache, cache_enabled, tcall[t].file_path, Unwrap(tcall[t].module))
    /\ inserts' = Append(inserts, [thread |-> t, file_path |-> tcall[t].file_path,
                                   module |-> Unwrap(tcall[t].module)])
    /\ pc' = [pc EXCEPT ![t] = "done"]
    /\ tcall' = [tcall EXCEPT ![t].out = "ok"]
    /\ UNCHANGED <<zip, base_path, extension, cache_enabled, nextModule, served, crashed, last>>
    /\ UNCHANGED <<zip_borrow, cvars, evars>>

\* The caller of thread t takes the result; the thread can call again.
t_return(t) ==
    /\ pc[t] = "done"
    /\ pc' = [pc EXCEPT ![t] = "idle"]
    /\ UNCHANGED <<tcall, zip_borrow, inserts, rvars, cvars, evars>>

\* ZipModuleResolver::load before the resolver is shared with the threads.
load_shared(a) ==
    /\ zip = None
    /\ \A t \in Threads : pc[t] = "idle"
    /\ load(a)

\* No thread has been started.
InitThreads ==
    /\ pc = [t \in Threads |-> "idle"]
    /\ tcall = [t \in Threads |-> TCall(<<>>, <<>>)]
    /\ zip_borrow = {}
    /\ inserts = <<>>

NextThreads ==
    \/ \E a \in 1..Len(Archives) : load_shared(a)
    \/ \E t \in Threads, p \in SyncPaths : t_lookup(t, p)
    \/ \E t \in Threads : t_get_file(t)
    \/ \E t \in Threads : t_read(t)
    \/ \E t \in Threads : t_compile(t)
    \/ \E t \in Threads : t_insert(t)
    \/ \E t \in Threads : t_return(t)

\* ---------------------------------------------------------------- config values
\* rhai Dynamic, as far as config documents use it.
UNIT == [t |-> "unit", v |-> <<>>]
StrV(s) == [t |-> "str", v |-> s]
IntV(n) == [t |-> "int", v |-> <<n>>]
BoolV(b) == [t |-> "bool", v |-> <<b>>]
ArrayV(a) == [t |-> "array", v |-> a]
MapV(m) == [t |-> "map", v |-> m]

\* Dynamic::is::<T>()
is(val, t) == val.t = t

\* str::split on a separator character: the segments, empty ones included.
RECURSIVE split(_, _)
split(s, c) ==
    LET RECURSIVE first(_)
        first(i) == IF i > Len(s) THEN 0 ELSE IF s[i] = c THEN i ELSE first(i + 1)
        k == first(1)
    IN  IF k = 0 THEN <<s>>
        ELSE <<SubSeq(s, 1, k - 1)>> \o split(SubSeq(s, k + 1, Len(s)), c)

\* Mutant of _get_loop: a segment reached on a value that is not a map
\* yields that value (a partial result).
RECURSIVE _get_loop_partial(_, _, _)
_get_loop_partial(cur, keys, ki) ==
    IF ki > Len(keys) THEN cur
    ELSE IF ~is(cur, "map") THEN cur
    ELSE IF keys[ki] \notin DOMAIN cur.v THEN UNIT
    ELSE _get_loop_partial(cur.v[keys[ki]], keys, ki + 1)

\* The loop of Config::_get (config.rs:111-135) from segment index ki on.
RECURSIVE _get_loop(_, _, _)
_get_loop(cur, keys, ki) ==
    IF ki > Len(keys) THEN cur
    ELSE IF ~is(cur, "map") THEN UNIT
    ELSE IF keys[ki] \notin DOMAIN cur.v THEN UNIT
    ELSE _get_loop(cur.v[keys[ki]], keys, ki + 1)

\* Config::_get and CortexConfig::_get (the same code).
_get(d, key) ==
    IF key = <<>> THEN UNIT
    ELSE LET keys == split(key, DOT)
         IN  IF keys[1] \notin DOMAIN d THEN UNIT
             ELSE _get_loop(d[keys[1]], keys, 2)

\* Mutant of memo_insert: a "no value" result is not stored.
memo_insert_skip_unit(mm, key, val) ==
    IF val = UNIT THEN mm
    ELSE [k \in DOMAIN mm \cup {key} |-> IF k = key THEN val ELSE mm[k]]

\* The memo insert of Config::get (config.rs:29).
memo_insert(mm, key, val) ==
    [k \in DOMAIN mm \cup {key} |-> IF k = key THEN val ELSE mm[k]]

\* The miss branch of Config::get (config.rs:27-31): val is stored, then returned.
get_miss(mm, key, val) == [val |-> val, memo |-> memo_insert(mm, key, val), hit |-> FALSE]

\* Config::get and CortexConfig::get: the value and the memo table after.
get(d, mm, key) ==
    IF key \in DOMAIN mm THEN [val |-> mm[key], memo |-> mm, hit |-> TRUE]
    ELSE get_miss(mm, key, _get(d, key))

\* The type check of the typed accessors on the result g of get: the
\* stored value when it has type t, else None.
typed(g, t) ==
    [opt |-> IF is(g.val, t) THEN Some(g.val.v) ELSE None,
     val |-> g.val, memo |-> g.memo, hit |-> g.hit]

\* Config::get_str / get_int / get_bool / get_array
get_typed(d, mm, key, t) == typed(get(d, mm, key), t)

get_str(d, mm, key) == get_typed(d, mm, key, "str")

\* The element loop of Config::get_str_array on the result g of get_array.
str_array(g) ==
    IF IsSome(g.opt) /\ \E i \in 1..Len(Unwrap(g.opt)) : ~is(Unwrap(g.opt)[i], "str")
    THEN [g EXCEPT !.opt = None]
    ELSE IF IsSome(g.opt)
    THEN [g EXCEPT !.opt = Some([i \in 1..Len(Unwrap(g.opt)) |-> Unwrap(g.opt)[i].v])]
    ELSE g

\* Config::get_str_array: None unless every element is a string.
get_str_array(d, mm, key) == str_array(get_typed(d, mm, key, "array"))

CFG_KEY_CORTEX_NAME == <<"c", "o", "r", "t", "e", "x", ".", "n", "a", "m", "e">>
CFG_KEY_CORTEX_VERSION ==
    <<"c", "o", "r", "t", "e", "x", ".", "v", "e", "r", "s", "i", "o", "n">>
CFG_KEY_GLOBAL_ENTRYPOINTS ==
    <<"g", "l", "o", "b", "a", "l", ".", "e", "n", "t", "r", "y", "p", "o", "i", "n", "t", "s">>
\* Mutant of REQ_STR_KEYS: the keys are checked in the other order.
REQ_STR_KEYS_version_first == <<CFG_KEY_CORTEX_VERSION, CFG_KEY_CORTEX_NAME>>

REQ_STR_KEYS == <<CFG_KEY_CORTEX_NAME, CFG_KEY_CORTEX_VERSION>>

\* The loop of CortexConfig::validate from required key i on: the first key
\* whose get_str is None fails the validation.
RECURSIVE validate_loop(_, _, _)
RECURSIVE validate_key(_, _, _)
validate_loop(d, mm, i) ==
    IF i > Len(REQ_STR_KEYS) THEN [ok |-> TRUE, key |-> <<>>, memo |-> mm]
    ELSE validate_key(d, i, get_str(d, mm, REQ_STR_KEYS[i]))

\* The body of the loop for required key i, val being its get_str.
validate_key(d, i, val) ==
    IF ~IsSome(val.opt) THEN [ok |-> FALSE, key |-> REQ_STR_KEYS[i], memo |-> val.memo]
    ELSE validate_loop(d, val.memo, i + 1)

\* CortexConfig::validate
cortex_validate(d, mm) == validate_loop(d, mm, 1)

\* ---------------------------------------------------------------- config documents
K_cortex == <<"c", "o", "r", "t", "e", "x">>
K_name == <<"n", "a", "m", "e">>
K_version == <<"v", "e", "r", "s", "i", "o", "n">>
K_global == <<"g", "l", "o", "b", "a", "l">>
K_entrypoints == <<"e", "n", "t", "r", "y", "p", "o", "i", "n", "t", "s">>
S_demo == <<"d", "e", "m", "o">>
S_one == <<"1">>
S_empty == <<>>

\* A document {"cortex": {"name": n, "version": v}, "global": {"entrypoints": e}};
\* an absent member is given as None.
Section(k1, o1, k2, o2) ==
    IF IsSome(o1) /\ IsSome(o2) THEN (k1 :> Unwrap(o1)) @@ (k2 :> Unwrap(o2))
    ELSE IF IsSome(o1) THEN (k1 :> Unwrap(o1))
    ELSE IF IsSome(o2) THEN (k2 :> Unwrap(o2))
    ELSE EmptyMap

Doc(n, v, e) ==
    (K_cortex :> MapV(Section(K_name, n, K_version, v)))
    @@ (K_global :> MapV(Section(K_entrypoints, e, K_entrypoints, None)))

Entrypoints(names) == ArrayV([i \in 1..Len(names) |-> StrV(names[i])])

NameValues == {None, Some(StrV(S_demo)), Some(StrV(S_empty)), Some(IntV(7))}
VersionValues == {None, Some(StrV(S_one)), Some(StrV(S_empty)), Some(MapV(EmptyMap))}

\* The documents of the config specification, and one whose "cortex" member
\* is not a map.
Docs ==
    {Doc(n, Some(StrV(S_one)), Some(Entrypoints(<<P_main>>))) : n \in NameValues}
    \cup {Doc(Some(StrV(S_demo)), v, Some(Entrypoints(<<P_main>>))) : v \in VersionValues}
    \cup {Doc(None, None, None), (K_cortex :> StrV(S_demo))}

\* The dotted paths queried.
QueryPaths ==
    {<<>>, K_cortex, CFG_KEY_CORTEX_NAME, CFG_KEY_CORTEX_NAME \o <<DOT>> \o K_name, K_name}
TypedPaths == {CFG_KEY_CORTEX_NAME}
ArrayPaths == {CFG_KEY_GLOBAL_ENTRYPOINTS}

\* ---------------------------------------------------------------- config operations
\* The record a config operation leaves in `clast`.
CLastOf(op, key, g) ==
    [op |-> op, key |-> key, val |-> g.val, opt |-> g.opt, hit |-> g.hit, ok |-> TRUE]

\* The state change of a config operation with result g.
config_step(op, key, g) ==
    /\ memo' = g.memo
    /\ clast' = CLastOf(op, key, g)

\* A call of Config::get / CortexConfig::get
Get(key) ==
    /\ config_step("get", key, typed(get(data, memo, key), "none"))
    /\ UNCHANGED <<data, rvars, evars, tvars>>

\* A call of one of the typed accessors.
GetTyped(key, t) ==
    /\ config_step("get_" \o t, key, get_typed(data, memo, key, t))
    /\ UNCHANGED <<data, rvars, evars, tvars>>

\* A call of Config::get_str_array
GetStrArray(key) ==
    /\ config_step("get_str_array", key, get_str_array(data, memo, key))
    /\ UNCHANGED <<data, rvars, evars, tvars>>

\* The state change of a validate call with result r.
validate_step(r) ==
    /\ memo' = r.memo
    /\ clast' = [op |-> "validate", key |-> r.key, val |-> UNIT, opt |-> None,
                 hit |-> FALSE, ok |-> r.ok]

\* A call of CortexConfig::validate
Validate ==
    /\ validate_step(cortex_validate(data, memo))
    /\ UNCHANGED <<data, rvars, evars, tvars>>

\* Config::new / CortexConfig::new over one of the documents.
InitConfig ==
    /\ data \in Docs
    /\ memo = EmptyMap
    /\ clast = [op |-> "new", key |-> <<>>, val |-> UNIT, opt |-> None, hit |-> FALSE,
                ok |-> TRUE]

NextConfig ==
    \/ \E key \in QueryPaths : Get(key)
    \/ \E key \in TypedPaths, t \in {"str", "int", "bool"} : GetTyped(key, t)
    \/ \E key \in ArrayPaths : GetTyped(key, "array")
    \/ \E key \in ArrayPaths : GetStrArray(key)
    \/ Validate

\* ---------------------------------------------------------------- cores
F_main_rhai == <<"m", "a", "i", "n", ".", "r", "h", "a", "i">>
P_lib_ep == <<"l", "i", "b", "s">>
F_libs_rhai == <<"l", "i", "b", "s", ".", "r", "h", "a", "i">>
F_config_json == <<"c", "o", "n", "f", "i", "g", ".", "j", "s", "o", "n">>

\* An entrypoint source file: the constants it declares, the constants it
\* uses (strict variables: an unknown one is a compile error), its functions
\* keyed by <<name, number of parameters>>, and its top-level statements.
Source(consts, uses, fns, stmts) ==
    [utf8 |-> TRUE, parses |-> TRUE, consts |-> consts, uses |-> uses, fns |-> fns,
     stmts |-> stmts]
BadSource ==
    [utf8 |-> TRUE, parses |-> FALSE, consts |-> <<>>, uses |-> {}, fns |-> EmptyMap,
     stmts |-> <<>>]

Fn(origin, body) == [origin |-> origin, body |-> body]

\* Statements of a function body: storage_set(key, val), the array form
\* storage_set(key_path, val), and a raised error.
StorageSet(key, val) == [op |-> "storage_set", key |-> key, val |-> val]
StorageSetPath(key_path, val) == [op |-> "storage_set_path", key_path |-> key_path, val |-> val]
Raise == [op |-> "throw"]

\* let <name> = ...; at the top level of a file or in a function body.
Let(name) == [op |-> "let", name |-> name]

\* Storage keys and key segments.
Key_k == <<"k">>
Key_a == <<"a">>
Key_b == <<"b">>

\* fn deploy() {}  fn handle() {}  fn query() {}
Endpoints(origin) ==
    (<<"deploy", 0>> :> Fn(origin, <<>>))
    @@ (<<"handle", 0>> :> Fn(origin, <<>>))
    @@ (<<"query", 0>> :> Fn(origin, <<>>))

\* The bytes load_core is given: whether they are a zip archive, the
\* config.json in it (absent, not JSON, or a document) and its script files.
Core(config, files) == [zip_ok |-> TRUE, config |-> config, files |-> files]
NotAZip == [zip_ok |-> FALSE, config |-> [state |-> "absent", doc |-> EmptyMap], files |-> EmptyMap]
ConfigDoc(d) == [state |-> "ok", doc |-> d]
ConfigAbsent == [state |-> "absent", doc |-> EmptyMap]
ConfigBadJson == [state |-> "badjson", doc |-> EmptyMap]

MainOnly(c) == (F_main_rhai :> Source(<<>>, {}, Endpoints(<<c, 1>>), <<>>))

\* {"cortex": {"name": "demo", "version": "1"}, "global": {"entrypoints": eps}}
DemoConfig(eps) == ConfigDoc(Doc(Some(StrV(S_demo)), Some(StrV(S_one)), Some(Entrypoints(eps))))

\* An archive with that config and a main.rhai holding the functions fns.
MainWith(fns) == Core(DemoConfig(<<P_main>>), (F_main_rhai :> Source(<<>>, {}, fns, <<>>)))

Cores ==
    <<  \* 1: not an archive; 2, 3: no usable config.json
        NotAZip,
        Core(ConfigAbsent, MainOnly(2)),
        Core(ConfigBadJson, MainOnly(3)),
        \* 4: {"cortex": {"name": "demo", "version": "1"}, "global": {"entrypoints": ["main"]}}
        Core(ConfigDoc(Doc(Some(StrV(S_demo)), Some(StrV(S_one)), Some(Entrypoints(<<P_main>>)))),
             MainOnly(4)),
        \* 5-7: cortex.name absent, empty, not a string
        Core(ConfigDoc(Doc(None, Some(StrV(S_one)), Some(Entrypoints(<<P_main>>)))), MainOnly(5)),
        Core(ConfigDoc(Doc(Some(StrV(S_empty)), Some(StrV(S_one)), Some(Entrypoints(<<P_main>>)))),
             MainOnly(6)),
        Core(ConfigDoc(Doc(Some(IntV(7)), Some(StrV(S_one)), Some(Entrypoints(<<P_main>>)))),
             MainOnly(7)),
        \* 8-10: cortex.version absent, empty, not a string
        Core(ConfigDoc(Doc(Some(StrV(S_demo)), None, Some(Entrypoints(<<P_main>>)))), MainOnly(8)),
        Core(ConfigDoc(Doc(Some(StrV(S_demo)), Some(StrV(S_empty)), Some(Entrypoints(<<P_main>>)))),
             MainOnly(9)),
        Core(ConfigDoc(Doc(Some(StrV(S_demo)), Some(MapV(EmptyMap)), Some(Entrypoints(<<P_main>>)))),
             MainOnly(10)),
        \* 11: both absent; 12: no global.entrypoints
        Core(ConfigDoc(Doc(None, None, Some(Entrypoints(<<P_main>>)))), MainOnly(11)),
        Core(ConfigDoc(Doc(Some(StrV(S_demo)), Some(StrV(S_one)), None)), MainOnly(12)),
        \* 13: the entrypoint file is missing; 14: it does not compile
        Core(ConfigDoc(Doc(Some(StrV(S_demo)), Some(StrV(S_one)), Some(Entrypoints(<<P_main>>)))),
             EmptyMap),
        Core(ConfigDoc(Doc(Some(StrV(S_demo)), Some(StrV(S_one)), Some(Entrypoints(<<P_main>>)))),
             (F_main_rhai :> BadSource)),
        \* 15: a top-level statement of main raises during warm-up
        Core(ConfigDoc(Doc(Some(StrV(S_demo)), Some(StrV(S_one)), Some(Entrypoints(<<P_main>>)))),
             (F_main_rhai :> Source(<<>>, {}, Endpoints(<<15, 1>>), <<Throw>>))),
        \* 16: two entrypoints, libs declares the constant main uses
        Core(ConfigDoc(Doc(Some(StrV(S_demo)), Some(StrV(S_one)),
                           Some(Entrypoints(<<P_lib_ep, P_main>>)))),
             (F_libs_rhai :> Source(<<"K">>, {}, (<<"handle", 0>> :> Fn(<<16, 1>>, <<>>)), <<>>))
             @@ (F_main_rhai :> Source(<<>>, {"K"}, Endpoints(<<16, 2>>), <<>>))),
        \* 17: no query(); 18: handle takes a parameter; 19: only handle()
        MainWith((<<"deploy", 0>> :> Fn(<<17, 1>>, <<>>)) @@ (<<"handle", 0>> :> Fn(<<17, 1>>, <<>>))),
        MainWith((<<"deploy", 0>> :> Fn(<<18, 1>>, <<>>)) @@ (<<"handle", 1>> :> Fn(<<18, 1>>, <<>>))
                 @@ (<<"query", 0>> :> Fn(<<18, 1>>, <<>>))),
        MainWith((<<"handle", 0>> :> Fn(<<19, 1>>, <<>>))),
        \* 20: fn deploy() {}  fn handle() { storage_set("k", "v"); }  fn query() {}
        MainWith((<<"deploy", 0>> :> Fn(<<20, 1>>, <<>>))
                 @@ (<<"handle", 0>> :> Fn(<<20, 1>>, <<StorageSet(Key_k, "v")>>))
                 @@ (<<"query", 0>> :> Fn(<<20, 1>>, <<>>))),
        \* 21: the endpoints and fn simple() { storage_set("k", "v"); throw "x"; }
        MainWith(Endpoints(<<21, 1>>)
                 @@ (<<"simple", 0>> :> Fn(<<21, 1>>, <<StorageSet(Key_k, "v"), Raise>>))),
        \* 22: fn simple() { storage_set("k", "v"); storage_set(["a", "b"], "w"); }
        MainWith(Endpoints(<<22, 1>>)
                 @@ (<<"simple", 0>> :>
                        Fn(<<22, 1>>, <<StorageSet(Key_k, "v"),
                                        StorageSetPath(<<StrV(Key_a), StrV(Key_b)>>, "w")>>))),
        \* 23: fn simple() { storage_set("k", "w"); storage_set(["a", 7], "v"); }
        MainWith(Endpoints(<<23, 1>>)
                 @@ (<<"simple", 0>> :>
                        Fn(<<23, 1>>, <<StorageSet(Key_k, "w"),
                                        StorageSetPath(<<StrV(Key_a), IntV(7)>>, "v")>>))),
        \* 24: entrypoints libs, main; main.rhai is not in the archive
        Core(DemoConfig(<<P_lib_ep, P_main>>),
             (F_libs_rhai :> Source(<<"K">>, {}, EmptyMap, <<>>))),
        \* 25: entrypoints libs, main; main uses a constant nobody declares
        Core(DemoConfig(<<P_lib_ep, P_main>>),
             (F_libs_rhai :> Source(<<>>, {}, EmptyMap, <<>>))
             @@ (F_main_rhai :> Source(<<>>, {"K"}, Endpoints(<<25, 2>>), <<>>))),
        \* 26: entrypoints main, libs; main uses the constant libs declares
        Core(DemoConfig(<<P_main, P_lib_ep>>),
             (F_libs_rhai :> Source(<<"K">>, {}, EmptyMap, <<>>))
             @@ (F_main_rhai :> Source(<<>>, {"K"}, Endpoints(<<26, 1>>), <<>>))),
        \* 27: cortex.name absent and main.rhai does not compile
        Core(ConfigDoc(Doc(None, Some(StrV(S_one)), Some(Entrypoints(<<P_main>>)))),
             (F_main_rhai :> BadSource)),
        \* 28: let x = 1;  fn deploy() {}  fn handle() {}
        \*     fn simple() { let y = 2; storage_set("k", "v"); }
        Core(DemoConfig(<<P_main>>),
             (F_main_rhai :>
                 Source(<<>>, {},
                        (<<"deploy", 0>> :> Fn(<<28, 1>>, <<>>))
                        @@ (<<"handle", 0>> :> Fn(<<28, 1>>, <<>>))
                        @@ (<<"simple", 0>> :>
                               Fn(<<28, 1>>, <<Let("y"), StorageSet(Key_k, "v")>>)),
                        <<Let("x")>>)))
    >>

\* ---------------------------------------------------------------- engine
NoEngineErr == [stage |-> "", kind |-> "", key |-> <<>>]
EngineErr(stage, kind, key) == [stage |-> stage, kind |-> kind, key |-> key]

\* The record an engine operation leaves in `elast`.
\* fn is the script function a run invoked, calls the number of invocations
\* made, written the keys it wrote with the last value written to each, steps
\* the engine calls a public operation made, in order, with their success,
\* starts the scopes the invocations of a run started from.
ELastOf(op, c, err) ==
    [op |-> op, core |-> c, out |-> IF err = NoEngineErr THEN "ok" ELSE "err", err |-> err,
     fn |-> "", calls |-> 0, written |-> EmptyMap, arg |-> <<>>, val |-> "", steps |-> <<>>,
     starts |-> {}]

\* ZipModuleResolver::get_file on the archive of a core.
core_get_file(core, file_path) ==
    IF file_path = F_config_json
    THEN IF core.config.state = "absent" THEN [ok |-> FALSE, err |-> "FileNotFound"]
         ELSE [ok |-> TRUE, err |-> ""]
    ELSE IF file_path \notin DOMAIN core.files THEN [ok |-> FALSE, err |-> "FileNotFound"]
    ELSE IF ~core.files[file_path].utf8 THEN [ok |-> FALSE, err |-> "FileReadFailed"]
    ELSE [ok |-> TRUE, err |-> ""]

\* load_json_with_engine on config.json, f being what get_file returned.
load_json(core, f) ==
    IF ~f.ok THEN [ok |-> FALSE, err |-> f.err, config |-> None]
    ELSE IF core.config.state = "badjson"
    THEN [ok |-> FALSE, err |-> "JsonParseFailed", config |-> None]
    ELSE [ok |-> TRUE, err |-> "",
          config |-> Some([data |-> core.config.doc, memo |-> EmptyMap])]

\* ZipModuleResolver::load_config with load_json_with_engine: the Config of
\* the archive's config.json, or the error.
resolver_load_config(core) ==
    load_json(core, core_get_file(core, get_file_path(None, RHAI_EXTENSION, CFG_FILE, None,
                                                      Some(JSON_EXTENSION))))

\* AST::merge: the statements of both in order, the functions of both, those
\* of `other` replacing same-named ones with the same number of parameters.
ast_merge(ast, other) ==
    [fns |-> other.fns @@ ast.fns, stmts |-> ast.stmts \o other.stmts]

\* The names bound in a scope.
scope_names(scope) == {scope[i] : i \in 1..Len(scope)}

\* ZipModuleResolver::compile_with_scope on an entrypoint source: the
\* constants it declares are pushed on the scope, then the body is compiled.
compile_source(src, source_path, scope) ==
    IF ~src.parses \/ ~(src.uses \subseteq scope_names(scope \o src.consts))
    THEN [ok |-> FALSE, err |-> "SourceCompileFailed", path |-> source_path]
    ELSE [ok |-> TRUE, err |-> "", path |-> source_path, scope |-> scope \o src.consts,
          ast |-> [fns |-> src.fns, stmts |-> src.stmts]]

\* compile_path_with_scope once the source path is known.
compile_source_path(core, source_path, scope) ==
    IF ~core_get_file(core, source_path).ok
    THEN [ok |-> FALSE, err |-> core_get_file(core, source_path).err, path |-> <<>>]
    ELSE compile_source(core.files[source_path], source_path, scope)

\* ZipModuleResolver::compile_path_with_scope: the compiled unit and the
\* scope with the constants the source declares, or the error.
compile_path_with_scope(core, path, scope) ==
    compile_source_path(core, get_source_path(None, RHAI_EXTENSION, path, None), scope)

\* The loop of ZipModuleResolver::compile_entrypoints from entrypoint i on.
RECURSIVE compile_entrypoints_loop(_, _, _, _, _)
RECURSIVE compile_entrypoints_merge(_, _, _, _, _, _)
compile_entrypoints_loop(core, entrypoints, i, scope, ast) ==
    IF i > Len(entrypoints)
    THEN [ok |-> TRUE, err |-> "", path |-> <<>>, scope |-> scope, ast |-> ast]
    ELSE compile_entrypoints_merge(core, entrypoints, i, scope, ast,
                                   compile_path_with_scope(core, entrypoints[i], scope))

\* The body of the loop for entrypoint i, cur being its compilation.
compile_entrypoints_merge(core, entrypoints, i, scope, ast, cur) ==
    IF ~cur.ok
    THEN [ok |-> FALSE, err |-> cur.err, path |-> cur.path, scope |-> scope, ast |-> ast]
    ELSE compile_entrypoints_loop(core, entrypoints, i + 1, cur.scope,
             IF IsSome(ast) THEN Some(ast_merge(Unwrap(ast), cur.ast)) ELSE Some(cur.ast))

\* The end of compile_entrypoints: the accumulated scope is stored.
compile_entrypoints_done(res, ce) ==
    IF ~ce.ok
    THEN [ok |-> FALSE, err |-> ce.err, path |-> ce.path, resolver |-> res, ast |-> None]
    ELSE [ok |-> TRUE, err |-> "", path |-> <<>>,
          resolver |-> [res EXCEPT !.scope = ce.scope], ast |-> ce.ast]

\* ZipModuleResolver::compile_entrypoints, eps being what
\* get_str_array("global.entrypoints") returned.
compile_entrypoints(res, eps) ==
    IF ~IsSome(eps.opt)
    THEN [ok |-> TRUE, err |-> "", path |-> <<>>,
          resolver |-> [res EXCEPT !.config = Some([data |-> Unwrap(@).data, memo |-> eps.memo])],
          ast |-> None]
    ELSE compile_entrypoints_done(
             [res EXCEPT !.config = Some([data |-> Unwrap(@).data, memo |-> eps.memo])],
             compile_entrypoints_loop(Cores[res.core], Unwrap(eps.opt), 1, res.scope, None))

\* init_with_scope after load_config returned lc.
init_with_config(res, lc) ==
    IF ~lc.ok
    THEN [ok |-> FALSE, err |-> lc.err, path |-> <<>>, resolver |-> res, ast |-> None]
    ELSE compile_entrypoints([res EXCEPT !.config = lc.config],
                             get_str_array(Unwrap(lc.config).data, Unwrap(lc.config).memo,
                                           CFG_KEY_GLOBAL_ENTRYPOINTS))

\* ZipModuleResolver::init_with_scope: set_scope, load_config and
\* compile_entrypoints on the resolver `res`; the resolver after, and the
\* compiled program or the error.
init_with_scope(res, scope) ==
    init_with_config([res EXCEPT !.scope = scope], resolver_load_config(Cores[res.core]))

\* OmnibusEngine::load_config, v being the validation of the CortexConfig
\* made of the resolver's document: it is stored only when v passed.
store_config(d, old_cfg, v) ==
    IF ~v.ok THEN [ok |-> FALSE, key |-> v.key, cfg |-> old_cfg]
    ELSE [ok |-> TRUE, key |-> <<>>, cfg |-> Some([data |-> d, memo |-> v.memo])]

\* OmnibusEngine::load_config
engine_load_config(res, old_cfg) ==
    store_config(Unwrap(res.config).data, old_cfg,
                 cortex_validate(Unwrap(res.config).data, EmptyMap))

\* Scope::rewind: the scope cut back to its first len bindings.
rewind(scope, len) == SubSeq(scope, 1, len)

\* Engine::eval_statements_raw on the top-level statements from index i on:
\* a let pushes its binding on the scope, a raised error ends the run.
RECURSIVE eval_statements_raw(_, _, _)
eval_statements_raw(stmts, i, scope) ==
    IF i > Len(stmts) THEN [ok |-> TRUE, scope |-> scope]
    ELSE IF stmts[i].op = "throw" THEN [ok |-> FALSE, scope |-> scope]
    ELSE IF stmts[i].op = "let" THEN eval_statements_raw(stmts, i + 1, Append(scope, stmts[i].name))
    ELSE eval_statements_raw(stmts, i + 1, scope)

\* Mutant of warm_ast_evaluated: a call cache and global context the engine
\* already holds are kept instead of the new ones.
warm_ast_evaluated_reuse(caches, global, fresh, orig_scope_len, ev) ==
    IF ~ev.ok THEN [ok |-> FALSE, caches |-> caches, global |-> global, scope |-> ev.scope]
    ELSE [ok |-> TRUE, caches |-> IF IsSome(caches) THEN caches ELSE Some(fresh),
          global |-> IF IsSome(global) THEN global ELSE Some(fresh),
          scope |-> rewind(ev.scope, orig_scope_len)]

\* warm_ast after the statements ran with outcome ev (engine.rs:239-255): an
\* error returns with the engine's call cache and global context as they
\* were; else the local scope is rewound and the new ones are stored.
warm_ast_evaluated(caches, global, fresh, orig_scope_len, ev) ==
    IF ~ev.ok THEN [ok |-> FALSE, caches |-> caches, global |-> global, scope |-> ev.scope]
    ELSE [ok |-> TRUE, caches |-> Some(fresh), global |-> Some(fresh),
          scope |-> rewind(ev.scope, orig_scope_len)]

\* OmnibusEngine::warm_ast: the top-level statements of the program run once
\* on a clone of the resolver's scope, with a new call cache and global
\* context (`fresh` is their identity).
warm_ast(ast, scope, caches, global, fresh) ==
    warm_ast_evaluated(caches, global, fresh, Len(scope),
                       eval_statements_raw(ast.stmts, 1, scope))

\* OmnibusEngine::loaded_core
loaded_core(e) ==
    IsSome(e.rh_resolver) /\ IsSome(e.rh_ast) /\ IsSome(e.rh_caches) /\ IsSome(e.rh_global)

\* The end of init_core (engine.rs:219-221), w being what warm_ast returned.
init_core_warmed(e, w) ==
    IF ~w.ok THEN [e |-> e, err |-> EngineErr("warm", "failed to eval_statements_raw", <<>>)]
    ELSE [e |-> [e EXCEPT !.rh_caches = w.caches, !.rh_global = w.global],
          err |-> NoEngineErr]

\* init_core from load_config on (engine.rs:217-221), lc being what
\* load_config returned; register_components follows a config that passed.
init_core_config(e, fresh, lc) ==
    IF ~lc.ok
    THEN [e |-> e, err |-> EngineErr("config", "cortex config missing key", lc.key)]
    ELSE init_core_warmed([e EXCEPT !.cfg = lc.cfg, !.registered = TRUE],
                          warm_ast(Unwrap(e.rh_ast), Unwrap(e.rh_resolver).scope, e.rh_caches,
                                   e.rh_global, fresh))

\* OmnibusEngine::init_core, init being what init_with_scope returned: the
\* program is merged into the engine's, then the config is loaded and the
\* program warmed.
init_core(e, fresh, init) ==
    IF ~init.ok
    THEN [e |-> [e EXCEPT !.rh_resolver = Some(init.resolver)],
          err |-> EngineErr("init", init.err, init.path)]
    ELSE IF ~IsSome(init.ast)
    THEN [e |-> [e EXCEPT !.rh_resolver = Some(init.resolver)],
          err |-> EngineErr("init", "no AST returned", <<>>)]
    ELSE init_core_config(
             [e EXCEPT !.rh_resolver = Some(init.resolver),
                       !.rh_ast = IF IsSome(e.rh_ast)
                                  THEN Some(ast_merge(Unwrap(e.rh_ast), Unwrap(init.ast)))
                                  ELSE init.ast],
             fresh, engine_load_config(init.resolver, e.cfg))

\* ZipModuleResolver::new followed by load_from_bytes of core c: the archive
\* is loaded, the scope is empty and there is no config yet.
loaded_resolver(c) == [core |-> c, scope |-> <<>>, config |-> None]

\* Mutant of load_core_result: the new resolver is stored and installed
\* before the result of load_from_bytes is examined.
load_core_result_install_first(e, c, fresh) ==
    IF ~Cores[c].zip_ok
    THEN [e |-> [e EXCEPT !.rh_engine = Some(loaded_resolver(c)),
                          !.rh_resolver = Some(loaded_resolver(c))],
          err |-> EngineErr("load", "failed to load core", <<>>)]
    ELSE init_core([e EXCEPT !.rh_engine = Some(loaded_resolver(c))], fresh,
                   init_with_scope(loaded_resolver(c), <<"ENV">>))

\* OmnibusEngine::load_core with init_core: the engine after the call and
\* the error it returned, if any.  e is the engine's state, c the core.
\* The new resolver itself is installed in the interpreter and a clone of it
\* is stored in rh_resolver (engine.rs:176-177); init_core works on the clone.
load_core_result(e, c, fresh) ==
    IF ~Cores[c].zip_ok
    THEN [e |-> e, err |-> EngineErr("load", "failed to load core", <<>>)]
    ELSE init_core([e EXCEPT !.rh_engine = Some(loaded_resolver(c))], fresh,
                   init_with_scope(loaded_resolver(c), <<"ENV">>))

\* The engine's fields as one record.
Engine ==
    [rh_engine |-> rh_engine, registered |-> registered, rh_resolver |-> rh_resolver,
     rh_ast |-> rh_ast, rh_caches |-> rh_caches, rh_global |-> rh_global, cfg |-> cfg]

\* The state change of a load_core call with result r.
engine_step(op, c, r) ==
    /\ rh_engine' = r.e.rh_engine
    /\ registered' = r.e.registered
    /\ rh_resolver' = r.e.rh_resolver
    /\ rh_ast' = r.e.rh_ast
    /\ rh_caches' = r.e.rh_caches
    /\ rh_global' = r.e.rh_global
    /\ cfg' = r.e.cfg
    /\ elast' = ELastOf(op, c, r.err)

\* A call of OmnibusEngine::load_core with the bytes of core c.
load_core(c) ==
    /\ loads < MaxLoads
    /\ engine_step("load_core", c, load_core_result(Engine, c, loads + 1))
    /\ loads' = loads + 1
    /\ UNCHANGED <<storage, rvars, cvars, tvars>>

\* ---------------------------------------------------------------- host functions
\* Storage::set on the backing store.
storage_insert(store, key, val) ==
    [k \in DOMAIN store \cup {key} |-> IF k = key THEN val ELSE store[k]]

\* The loop of expand_key_path (engine.rs:344-355) from segment i on.
RECURSIVE expand_key_path_loop(_, _, _)
expand_key_path_loop(key_path, i, buf) ==
    IF i > Len(key_path) THEN [ok |-> TRUE, key |-> buf, err |-> ""]
    ELSE IF ~is(key_path[i], "str")
    THEN [ok |-> FALSE, key |-> <<>>, err |-> "keys must all be String."]
    ELSE expand_key_path_loop(key_path, i + 1,
                              (IF buf /= <<>> THEN buf \o <<DOT>> ELSE buf) \o key_path[i].v)

\* expand_key_path
expand_key_path(key_path) ==
    IF key_path = <<>> THEN [ok |-> FALSE, key |-> <<>>, err |-> "key path is required."]
    ELSE expand_key_path_loop(key_path, 1, <<>>)

\* The registered function storage_set(key, val) (engine.rs:123-131).
host_storage_set(store, key, val) ==
    [ok |-> TRUE, store |-> storage_insert(store, key, val), key |-> key]

\* The array form once expand_key_path returned k.
host_storage_set_expanded(store, k, val) ==
    IF ~k.ok THEN [ok |-> FALSE, store |-> store, key |-> <<>>]
    ELSE [ok |-> TRUE, store |-> storage_insert(store, k.key, val), key |-> k.key]

\* The registered function storage_set(key_path, val) (engine.rs:133-153).
host_storage_set_path(store, key_path, val) ==
    host_storage_set_expanded(store, expand_key_path(key_path), val)

\* ---------------------------------------------------------------- script calls
\* The run of a function body from statement i on: the store and the keys
\* written so far are carried along; a raised error or a failed host call
\* ends the run with what has been written left in the store.
\* A let pushes its binding on the scope the function was called with.
RECURSIVE exec_body(_, _, _, _, _, _)
RECURSIVE exec_host(_, _, _, _, _, _, _)
exec_body(reg, body, i, store, written, scope) ==
    IF i > Len(body) THEN [ok |-> TRUE, store |-> store, written |-> written, scope |-> scope]
    ELSE IF body[i].op = "throw"
    THEN [ok |-> FALSE, store |-> store, written |-> written, scope |-> scope]
    ELSE IF body[i].op = "let"
    THEN exec_body(reg, body, i + 1, store, written, Append(scope, body[i].name))
    ELSE IF ~reg THEN [ok |-> FALSE, store |-> store, written |-> written, scope |-> scope]
    ELSE IF body[i].op = "storage_set"
    THEN exec_host(reg, body, i, written, scope, body[i].val,
                   host_storage_set(store, body[i].key, body[i].val))
    ELSE exec_host(reg, body, i, written, scope, body[i].val,
                   host_storage_set_path(store, body[i].key_path, body[i].val))

\* The rest of the body after the host call of statement i returned h.
exec_host(reg, body, i, written, scope, val, h) ==
    IF ~h.ok THEN [ok |-> FALSE, store |-> h.store, written |-> written, scope |-> scope]
    ELSE exec_body(reg, body, i + 1, h.store, storage_insert(written, h.key, val), scope)

\* The end of a script call that returned r on a scope that had orig_scope_len
\* bindings: with rewind_scope the bindings the call added are removed.
call_fn_rewind(r, orig_scope_len, rewind_scope) ==
    IF rewind_scope THEN [r EXCEPT !.scope = rewind(@, orig_scope_len)] ELSE r

\* Engine::call_fn_raw_raw of the zero-argument script function `name` on
\* the caller's scope.
call_fn(ast, reg, name, store, written, scope, rewind_scope) ==
    IF <<name, 0>> \notin DOMAIN ast.fns
    THEN [ok |-> FALSE, store |-> store, written |-> written, scope |-> scope]
    ELSE call_fn_rewind(exec_body(reg, ast.fns[<<name, 0>>].body, 1, store, written, scope),
                        Len(scope), rewind_scope)

\* ---------------------------------------------------------------- engine calls
ENDPOINT_FN_DEPLOY == "deploy"
ENDPOINT_FN_HANDLE == "handle"
ENDPOINT_FN_QUERY == "query"
ENDPOINT_METHODS == <<ENDPOINT_FN_DEPLOY, ENDPOINT_FN_HANDLE, ENDPOINT_FN_QUERY>>

\* Mutant of validate_endpoint_method: a function of the name with any
\* number of parameters is accepted.
validate_endpoint_method_any_arity(lib, name) ==
    IF \E k \in DOMAIN lib : k[1] = name THEN NoEngineErr
    ELSE EngineErr("validate", "core or script is invalid, missing endpoint", <<name>>)

\* validate_endpoint_method: the library must hold the function with no
\* parameters.
validate_endpoint_method(lib, name) ==
    IF <<name, 0>> \in DOMAIN lib THEN NoEngineErr
    ELSE EngineErr("validate", "core or script is invalid, missing endpoint", <<name>>)

\* The loop of OmnibusEngine::validate (engine.rs:286-288) from method i on.
RECURSIVE validate_endpoints(_, _)
validate_endpoints(lib, i) ==
    IF i > Len(ENDPOINT_METHODS) THEN NoEngineErr
    ELSE IF validate_endpoint_method(lib, ENDPOINT_METHODS[i]) /= NoEngineErr
    THEN validate_endpoint_method(lib, ENDPOINT_METHODS[i])
    ELSE validate_endpoints(lib, i + 1)

\* Mutant of engine_validate: the program is taken out of the engine to be
\* examined and not put back.
engine_validate_taking(e) ==
    IF ~loaded_core(e)
    THEN [e |-> e, err |-> EngineErr("validate", "cannot call 'validate' without a compiled core",
                                     <<>>)]
    ELSE [e |-> [e EXCEPT !.rh_ast = None], err |-> validate_endpoints(Unwrap(e.rh_ast).fns, 1)]

\* OmnibusEngine::validate: the engine after the call and the error returned.
engine_validate(e) ==
    IF ~loaded_core(e)
    THEN [e |-> e, err |-> EngineErr("validate", "cannot call 'validate' without a compiled core",
                                     <<>>)]
    ELSE [e |-> e, err |-> validate_endpoints(Unwrap(e.rh_ast).fns, 1)]

\* A call of OmnibusEngine::validate
validate ==
    /\ engine_step("validate", 0, engine_validate(Engine))
    /\ UNCHANGED <<storage, loads, rvars, cvars, tvars>>

\* The result of a run: the error, the store after, the function invoked,
\* the number of invocations made, the keys written, and the scopes the
\* invocations started from.
RunResult(err, store, fn, calls, written, starts) ==
    [err |-> err, store |-> store, fn |-> fn, calls |-> calls, written |-> written,
     starts |-> starts]

\* OmnibusEngine::run_deploy
engine_run_deploy(e, store) == RunResult(NoEngineErr, store, "", 0, EmptyMap, {})

\* The function run_handle invokes and how many times (engine.rs:319-321).
HANDLE_FN == "simple"
HANDLE_CALLS == 1000

\* Mutant of run_handle_called: a failed call restores the store the
\* iteration started with.
run_handle_called_rollback(st, r) ==
    [ok |-> r.ok, store |-> IF r.ok THEN r.store ELSE st.store, written |-> r.written,
     calls |-> st.calls + 1, scope |-> r.scope, starts |-> st.starts \cup {st.scope}]

\* One iteration of the loop of run_handle (engine.rs:320-327), st being
\* the state of the loop before it and r what the call returned.
run_handle_called(st, r) ==
    [ok |-> r.ok, store |-> r.store, written |-> r.written, calls |-> st.calls + 1,
     scope |-> r.scope, starts |-> st.starts \cup {st.scope}]

\* Mutant of run_handle_call: the call is made with rewind_scope false.
run_handle_call_no_rewind(ast, reg, st) ==
    call_fn(ast, reg, HANDLE_FN, st.store, st.written, st.scope, FALSE)

\* The call of one iteration (engine.rs:320-321): eval_ast false,
\* rewind_scope true, no arguments, on the scope cloned before the loop.
run_handle_call(ast, reg, st) ==
    call_fn(ast, reg, HANDLE_FN, st.store, st.written, st.scope, TRUE)

\* The iterations lo..hi of the loop of run_handle (engine.rs:319-328), in
\* order: the first half, then the second half from where the first ended;
\* nothing runs after a call has failed (`?`).
RECURSIVE run_handle_loop(_, _, _, _, _)
run_handle_loop(ast, reg, lo, hi, st) ==
    IF ~st.ok \/ lo > hi THEN st
    ELSE IF lo = hi
    THEN run_handle_called(st, run_handle_call(ast, reg, st))
    ELSE run_handle_loop(ast, reg, ((lo + hi) \div 2) + 1, hi,
                         run_handle_loop(ast, reg, lo, (lo + hi) \div 2, st))

\* The end of run_handle, st being the state the loop ended in.
run_handle_done(st) ==
    IF ~st.ok
    THEN RunResult(EngineErr("run", "failed to run 'handle' on rhai script",
                             <<ENDPOINT_FN_HANDLE>>),
                   st.store, HANDLE_FN, st.calls, st.written, st.starts)
    ELSE RunResult(NoEngineErr, st.store, HANDLE_FN, st.calls, st.written, st.starts)

\* OmnibusEngine::run_handle
engine_run_handle(e, store) ==
    IF ~loaded_core(e)
    THEN RunResult(EngineErr("run", "cannot call 'run_handle' without a compiled core", <<>>),
                   store, "", 0, EmptyMap, {})
    ELSE run_handle_done(
             run_handle_loop(Unwrap(e.rh_ast), e.registered, 1, HANDLE_CALLS,
                             [ok |-> TRUE, store |-> store, written |-> EmptyMap, calls |-> 0,
                              scope |-> Unwrap(e.rh_resolver).scope, starts |-> {}]))

\* The state change of a run with result r.
run_step(op, r) ==
    /\ storage' = r.store
    /\ elast' = [ELastOf(op, 0, r.err) EXCEPT !.fn = r.fn, !.calls = r.calls,
                                              !.written = r.written, !.starts = r.starts]

\* A call of OmnibusEngine::run_deploy
run_deploy ==
    /\ run_step("run_deploy", engine_run_deploy(Engine, storage))
    /\ UNCHANGED <<rh_engine, registered, rh_resolver, rh_ast, rh_caches, rh_global, cfg, loads,
                   rvars, cvars, tvars>>

\* A call of OmnibusEngine::run_handle
run_handle ==
    /\ run_step("run_handle", engine_run_handle(Engine, storage))
    /\ UNCHANGED <<rh_engine, registered, rh_resolver, rh_ast, rh_caches, rh_global, cfg, loads,
                   rvars, cvars, tvars>>

\* ---------------------------------------------------------------- host calls
\* The segments, key paths, keys and values scripts call storage_set with.
Segments == {StrV(Key_a), StrV(<<>>), IntV(7)}
KeyPaths == UNION {[1..n -> Segments] : n \in 0..MaxSegs}
StoreKeys == {Key_a, <<DOT>> \o Key_a, Key_k}
StoreVals == {"v", "w"}

\* OmnibusEngine::register_functions
register_functions ==
    /\ registered' = TRUE
    /\ elast' = ELastOf("register_functions", 0, NoEngineErr)
    /\ UNCHANGED <<rh_engine, storage, rh_resolver, rh_ast, rh_caches, rh_global, cfg, loads,
                   rvars, cvars, tvars>>

\* The state change of a host call with result h.
host_step(op, arg, val, h) ==
    /\ storage' = h.store
    /\ elast' = [ELastOf(op, 0, IF h.ok THEN NoEngineErr
                                ELSE EngineErr("host", "error during storage set", <<>>))
                    EXCEPT !.arg = arg, !.val = val]

\* A script's call of storage_set(key, val)
storage_set(key, val) ==
    /\ registered
    /\ Cardinality(DOMAIN storage) < MaxStored
    /\ host_step("storage_set", key, val, host_storage_set(storage, key, val))
    /\ UNCHANGED <<rh_engine, registered, rh_resolver, rh_ast, rh_caches, rh_global, cfg, loads,
                   rvars, cvars, tvars>>

\* A script's call of storage_set(key_path, val)
storage_set_path(key_path, val) ==
    /\ registered
    /\ Cardinality(DOMAIN storage) < MaxStored
    /\ host_step("storage_set_path", key_path, val, host_storage_set_path(storage, key_path, val))
    /\ UNCHANGED <<rh_engine, registered, rh_resolver, rh_ast, rh_caches, rh_global, cfg, loads,
                   rvars, cvars, tvars>>

NextStore ==
    \/ register_functions
    \/ \E key \in StoreKeys, val \in StoreVals : storage_set(key, val)
    \/ \E key_path \in KeyPaths, val \in StoreVals : storage_set_path(key_path, val)

\* OmnibusEngine::new
InitEngine ==
    /\ rh_engine = None
    /\ registered = FALSE
    /\ storage = EmptyMap
    /\ rh_resolver = None
    /\ rh_ast = None
    /\ rh_caches = None
    /\ rh_global = None
    /\ cfg = None
    /\ loads = 0
    /\ elast = ELastOf("new", 0, NoEngineErr)

NextEngine ==
    \/ \E c \in 1..Len(Cores) : load_core(c)
    \/ validate
    \/ run_deploy
    \/ run_handle

\* ---------------------------------------------------------------- operations
\* One engine call made by a public operation, and whether it succeeded.
Step(call, ok) == [call |-> call, ok |-> ok]

\* OmnibusEngine::new: the engine a public operation constructs.
NewEngine ==
    [rh_engine |-> None, registered |-> FALSE, rh_resolver |-> None, rh_ast |-> None,
     rh_caches |-> None, rh_global |-> None, cfg |-> None]

\* What a public operation returned: the engine it leaves, the error, the
\* run it made if it got that far, and the engine calls it made.
OpResult(e, run, steps) == [e |-> e, run |-> run, steps |-> steps]

\* The `?` after an engine call that failed with err before any run.
OpFailed(e, store, err, steps) ==
    OpResult(e, RunResult(err, store, "", 0, EmptyMap, {}), steps)

\* The last call of an operation, the run of an endpoint.
OpRan(e, run, steps, call) ==
    OpResult(e, run, Append(steps, Step(call, run.err = NoEngineErr)))

\* operations::deploy after validate returned v (operations.rs:14-15).
deploy_validated(store, v) ==
    IF v.err /= NoEngineErr
    THEN OpFailed(v.e, store, v.err, <<Step("load_core", TRUE), Step("validate", FALSE)>>)
    ELSE OpRan(v.e, engine_run_deploy(v.e, store),
               <<Step("load_core", TRUE), Step("validate", TRUE)>>, "run_deploy")

\* operations::deploy after load_core returned l (operations.rs:13-15).
deploy_loaded(store, l) ==
    IF l.err /= NoEngineErr
    THEN OpFailed(l.e, store, l.err, <<Step("load_core", FALSE)>>)
    ELSE deploy_validated(store, engine_validate(l.e))

\* operations::deploy: a new engine, load_core, validate, run_deploy.
operations_deploy(c, store) == deploy_loaded(store, load_core_result(NewEngine, c, 1))

\* operations::handle after load_core returned l (operations.rs:24-25).
handle_loaded(store, l) ==
    IF l.err /= NoEngineErr
    THEN OpFailed(l.e, store, l.err, <<Step("load_core", FALSE)>>)
    ELSE OpRan(l.e, engine_run_handle(l.e, store), <<Step("load_core", TRUE)>>, "run_handle")

\* operations::handle: a new engine, load_core, run_handle.
operations_handle(c, store) == handle_loaded(store, load_core_result(NewEngine, c, 1))

\* The state change of a public operation with result r: the engine it
\* constructed is left as the operation ended with it.
operation_step(op, c, r) ==
    /\ rh_engine' = r.e.rh_engine
    /\ registered' = r.e.registered
    /\ rh_resolver' = r.e.rh_resolver
    /\ rh_ast' = r.e.rh_ast
    /\ rh_caches' = r.e.rh_caches
    /\ rh_global' = r.e.rh_global
    /\ cfg' = r.e.cfg
    /\ loads' = 1
    /\ storage' = r.run.store
    /\ elast' = [ELastOf(op, c, r.run.err) EXCEPT !.fn = r.run.fn, !.calls = r.run.calls,
                                                  !.written = r.run.written,
                                                  !.starts = r.run.starts,
                                                  !.steps = r.steps]

\* A call of operations::deploy with the bytes of core c.
deploy(c) ==
    /\ operation_step("deploy", c, operations_deploy(c, storage))
    /\ UNCHANGED <<rvars, cvars, tvars>>

\* A call of operations::handle with the bytes of core c.
handle(c) ==
    /\ operation_step("handle", c, operations_handle(c, storage))
    /\ UNCHANGED <<rvars, cvars, tvars>>

NextOperations ==
    \/ \E c \in 1..Len(Cores) : deploy(c)
    \/ \E c \in 1..Len(Cores) : handle(c)

\* ---------------------------------------------------------------- specifications
\* The parts of the state a specification does not exercise stay as constructed.
IdleConfig ==
    /\ data = EmptyMap
    /\ memo = EmptyMap
    /\ clast = [op |-> "new", key |-> <<>>, val |-> UNIT, opt |-> None, hit |-> FALSE,
                ok |-> TRUE]

IdleResolver == InitResolver /\ base_path = None /\ extension = RHAI_EXTENSION

IdleEngine == InitEngine

\* The resolver under any sequence of its operations.
Init == InitResolver /\ IdleConfig /\ IdleEngine /\ InitThreads

Next == NextResolver

Spec == Init /\ [][Next]_vars

\* A config accessor over a document, under any sequence of its operations.
InitCfg == InitConfig /\ IdleResolver /\ IdleEngine /\ InitThreads

SpecConfig == InitCfg /\ [][NextConfig]_vars

\* An engine under any sequence of its operations.
InitEng == InitEngine /\ IdleResolver /\ IdleConfig /\ InitThreads

SpecEngine == InitEng /\ [][NextEngine]_vars

\* The storage host functions of an engine under any sequence of calls.
SpecStore == InitEng /\ [][NextStore]_vars

\* Two threads resolving through one shared resolver, in any interleaving.
InitSync == IdleResolver /\ IdleConfig /\ IdleEngine /\ InitThreads

SpecSync == InitSync /\ [][NextThreads]_vars

\* The public operations over one backing store, under any sequence of calls.
SpecOperations == InitEng /\ [][NextOperations]_vars

\* ---------------------------------------------------------------- claims
Resolves == {"resolve", "resolve_raw"}

\* The module served for the path of entry i of a call log before that entry:
\* by an earlier entry of the log, else by `served` as it was before the call.
C1_Before(log, i) ==
    LET js == {j \in 1..(i - 1) : log[j].file_path = log[i].file_path}
    IN  IF js = {} THEN served_for(served, log[i].file_path)
        ELSE [state |-> "served",
              id |-> log[CHOOSE j \in js : \A k \in js : k <= j].module.id]

\* C1: with caching enabled, a resolve call (nested ones included) for a
\* path that an earlier resolve call served, with no clear of the path since,
\* returns the same module instance and does not read the archive; the resolve
\* that follows clear_cache() reads the archive and compiles again.
C1_SameInstanceUntilCleared ==
    [][(last'.op \in Resolves /\ cache_enabled /\ last'.out /= "abort") =>
        /\ \A i \in 1..Len(last'.log) :
              C1_Before(last'.log, i).state = "served" =>
                  /\ last'.log[i].module.id = C1_Before(last'.log, i).id
                  /\ ~last'.log[i].read
        /\ (last.op = "clear_cache" /\ last'.out = "ok") =>
              (last'.read /\ last'.compiled /\ ~last'.hit)]_vars

\* C1 witness: a resolve answered from the cache with the module served before.
C1_Witness ==
    /\ last.op = "resolve" /\ last.out = "ok" /\ cache_enabled
    /\ last.hit /\ ~last.read
    /\ last.prev.state = "served"
    /\ Unwrap(last.module).id = last.prev.id

\* C2 (as stated): a resolve call that fails leaves the module cache exactly
\* as it was before the call.
C2_FailedResolveLeavesCache ==
    [][(last'.op \in Resolves /\ last'.out = "err") => cache' = cache]_vars

\* C2 (amended): a resolve call never changes or removes an existing cache
\* entry; every entry it adds is the module of a resolve call (itself or an
\* import nested in it) that read the archive and succeeded with caching
\* enabled; and a call that fails adds no entry for its own path.
C2_OnlySuccessfulResolvesCached ==
    [][(last'.op \in Resolves /\ last'.out /= "abort") =>
        /\ \A k \in DOMAIN cache : k \in DOMAIN cache' /\ cache'[k] = cache[k]
        /\ \A k \in DOMAIN cache' \ DOMAIN cache :
              /\ cache_enabled
              /\ \E i \in 1..Len(last'.log) :
                    /\ last'.log[i].file_path = k
                    /\ last'.log[i].module = cache'[k]
                    /\ last'.log[i].read
        /\ last'.out = "err" => last'.file_path \notin DOMAIN cache' \ DOMAIN cache]_vars

\* C2 witness: a resolve failed at evaluation after an import nested in it
\* had been resolved and cached.
C2_Witness ==
    /\ last.op = "resolve" /\ last.out = "err" /\ last.cause = "EvalError"
    /\ Len(last.log) = 1 /\ last.log[1].read
    /\ last.log[1].file_path \in DOMAIN cache
    /\ last.file_path \notin DOMAIN cache

\* The directory a relative import of the last resolve call is joined to: the
\* base path when set, else the parent of the requesting module's path when
\* known, else the archive root.
C3_Dir ==
    IF IsSome(base_path) THEN Unwrap(base_path)
    ELSE IF IsSome(last.src) /\ IsSome(parent(Unwrap(last.src)))
    THEN Unwrap(parent(Unwrap(last.src)))
    ELSE <<>>

\* C3: resolve looks up a relative import path joined to the base path when
\* one is set, else to the parent directory of the requesting module's path,
\* else to the archive root; an absolute import path is joined to neither.
C3_ResolvePathPrecedence ==
    last.op \in Resolves =>
        last.file_path =
            IF is_relative(last.path)
            THEN set_extension(push(C3_Dir, last.path), extension)
            ELSE set_extension(last.path, extension)

\* C3 witness: a resolve with a base path set and a requesting module in
\* another directory found the file under the base path.
C3_Witness ==
    /\ last.op = "resolve" /\ last.out = "ok"
    /\ base_path = Some(P_lib) /\ last.src = Some(P_sub_m)
    /\ last.path = P_foo /\ last.file_path = F_lib_foo_rhai

Foo3 == {P_foo, P_foo_txt, P_foo_rhai}

\* C4: with extension "rhai", the import paths "foo", "foo.txt" and
\* "foo.rhai" are looked up as the same path "<dir>/foo.rhai"; once it has
\* been served with caching enabled, a resolve of any of the three is a cache
\* hit returning that module, and the cache holds no entry under the other
\* spellings.
C4_ExtensionForcing ==
    (last.op \in Resolves /\ last.path \in Foo3 /\ extension = RHAI_EXTENSION
     /\ last.out /= "abort") =>
        /\ last.file_path = push(C3_Dir, F_foo_rhai)
        /\ (cache_enabled /\ last.prev.state = "served") =>
              /\ last.hit /\ last.out = "ok"
              /\ Unwrap(last.module).id = last.prev.id
        /\ push(C3_Dir, P_foo) \notin DOMAIN cache
        /\ push(C3_Dir, P_foo_txt) \notin DOMAIN cache

\* C4 witness: "foo.txt" was answered from the cache with the module
\* compiled for the import "foo", the only cache entry.
C4_Witness ==
    /\ last.op = "resolve" /\ last.out = "ok" /\ last.path = P_foo_txt
    /\ last.hit
    /\ Unwrap(last.module).source = P_foo
    /\ DOMAIN cache = {F_foo_rhai}

C6_ResolveAstBypassesCache ==
    [][last'.op = "resolve_ast" =>
        /\ cache' = cache
        /\ ~last'.hit
        /\ last'.out /= "abort" => (last'.read /\ last'.compiled)]_vars

\* C6 witness: resolve_ast read and compiled a file whose path is cached.
C6_Witness ==
    /\ last.op = "resolve_ast" /\ last.out = "ok"
    /\ cache_enabled /\ last.file_path \in DOMAIN cache
    /\ last.read /\ last.compiled

\* C7: get(p) stores its result under p, "no value" included; a get(p) of a
\* memoized p returns the memoized value and leaves the memo table as it is;
\* so two consecutive get(p) return equal values.
C7_GetMemoized ==
    [][clast'.op = "get" =>
        /\ clast'.key \in DOMAIN memo'
        /\ memo'[clast'.key] = clast'.val
        /\ clast'.key \in DOMAIN memo => (clast'.val = memo[clast'.key] /\ memo' = memo)
        /\ (clast.op = "get" /\ clast.key = clast'.key) =>
              (clast'.val = clast.val /\ memo' = memo)]_vars

\* C7 witness: a get of a non-empty path returned a memoized "no value".
C7_Witness ==
    /\ clast.op = "get" /\ clast.hit
    /\ clast.key /= <<>> /\ clast.val = UNIT
    /\ memo[clast.key] = UNIT

\* The value the first i segments lead to through nested maps, if they do.
RECURSIVE C8_At(_, _)
C8_At(segs, i) ==
    IF i = 1 THEN IF segs[1] \in DOMAIN data THEN Some(data[segs[1]]) ELSE None
    ELSE LET up == C8_At(segs, i - 1)
         IN  IF IsSome(up) /\ Unwrap(up).t = "map" /\ segs[i] \in DOMAIN Unwrap(up).v
             THEN Some(Unwrap(up).v[segs[i]])
             ELSE None

\* C8: get returns "no value" for the empty path and whenever a segment is
\* missing or is reached on a value that is not a map; it returns the stored
\* value when every segment resolves through nested maps.
C8_MissingPathIsNoValue ==
    clast.op = "get" =>
        IF clast.key = <<>> THEN clast.val = UNIT
        ELSE LET segs == split(clast.key, DOT)
             IN  IF IsSome(C8_At(segs, Len(segs)))
                 THEN clast.val = Unwrap(C8_At(segs, Len(segs)))
                 ELSE clast.val = UNIT

\* C8 witness: "cortex.name.name" on a document whose cortex.name is a
\* string returned "no value".
C8_Witness ==
    /\ clast.op = "get" /\ clast.key = CFG_KEY_CORTEX_NAME \o <<DOT>> \o K_name
    /\ C8_At(<<K_cortex, K_name>>, 2) = Some(StrV(S_demo))
    /\ clast.val = UNIT

\* Whether a document holds a string under cortex.<k>.
C9_IsStr(doc, k) ==
    /\ K_cortex \in DOMAIN doc
    /\ doc[K_cortex].t = "map"
    /\ k \in DOMAIN doc[K_cortex].v
    /\ doc[K_cortex].v[k].t = "str"

\* C9: a load_core that gets as far as config validation fails with the
\* missing-key error naming cortex.name when that is absent or not a string,
\* else naming cortex.version when that is absent or not a string; the failed
\* call stores no config and does not warm the program.
C9_MissingKeyAbortsLoad ==
    [][(elast'.op = "load_core" /\ loads' = loads + 1
        /\ elast'.err.stage \notin {"load", "init"}) =>
        /\ ~C9_IsStr(Cores[elast'.core].config.doc, K_name) =>
              elast'.err = EngineErr("config", "cortex config missing key", CFG_KEY_CORTEX_NAME)
        /\ (C9_IsStr(Cores[elast'.core].config.doc, K_name)
            /\ ~C9_IsStr(Cores[elast'.core].config.doc, K_version)) =>
              elast'.err = EngineErr("config", "cortex config missing key", CFG_KEY_CORTEX_VERSION)
        /\ (C9_IsStr(Cores[elast'.core].config.doc, K_name)
            /\ C9_IsStr(Cores[elast'.core].config.doc, K_version)) =>
              elast'.err.stage /= "config"
        /\ elast'.err.stage = "config" =>
              (cfg' = cfg /\ rh_caches' = rh_caches /\ rh_global' = rh_global)]_vars

\* C9 witness: a config lacking both keys failed load_core with the error
\* naming cortex.name, and the engine holds no config.
C9_Witness ==
    /\ elast.op = "load_core" /\ elast.core = 11
    /\ elast.err = EngineErr("config", "cortex config missing key", CFG_KEY_CORTEX_NAME)
    /\ cfg = None

\* Whether the document holds the empty string under cortex.<k>.
C10_IsEmpty(k) == C9_IsStr(data, k) /\ data[K_cortex].v[k].v = <<>>

\* C10 (as stated): validation fails with the missing-key error naming the
\* key when cortex.name or cortex.version is the empty string.
C10_EmptyStringRejected ==
    clast.op = "validate" =>
        /\ C10_IsEmpty(K_name) => (~clast.ok /\ clast.key = CFG_KEY_CORTEX_NAME)
        /\ (C9_IsStr(data, K_name) /\ ~C10_IsEmpty(K_name) /\ C10_IsEmpty(K_version)) =>
              (~clast.ok /\ clast.key = CFG_KEY_CORTEX_VERSION)

\* The endpoints, in the order they are required, of which the merged
\* program holds no zero-argument function.
C11_Missing ==
    LET names == <<"deploy", "handle", "query">>
    IN  SelectSeq(names, LAMBDA n : <<n, 0>> \notin DOMAIN Unwrap(rh_ast).fns)

\* C11: on a warmed engine validate() succeeds exactly when the merged
\* program holds a zero-argument deploy, handle and query; otherwise it fails
\* naming the first of them, in that order, that is missing; a function of the
\* name that takes parameters does not count.
C11_ValidateEndpoints ==
    (elast.op = "validate" /\ loaded_core(Engine)) =>
        /\ elast.out = "ok" <=> C11_Missing = <<>>
        /\ C11_Missing /= <<>> =>
              (elast.err.stage = "validate" /\ elast.err.key = <<C11_Missing[1]>>)

\* C11 witness: validate failed naming handle on a program whose only
\* handle takes one parameter.
C11_Witness ==
    /\ elast.op = "validate" /\ loaded_core(Engine)
    /\ elast.out = "err" /\ elast.err.key = <<"handle">>
    /\ <<"handle", 1>> \in DOMAIN Unwrap(rh_ast).fns
    /\ <<"deploy", 0>> \in DOMAIN Unwrap(rh_ast).fns

\* C12: validate() leaves the program, config, resolver, installed
\* resolver, call cache, global context and backing store as they were,
\* whether it succeeds or fails, and a validate() directly after a validate()
\* returns the same result.
C12_ValidateChangesNothing ==
    [][elast'.op = "validate" =>
        /\ UNCHANGED <<rh_engine, registered, storage, rh_resolver, rh_ast, rh_caches,
                       rh_global, cfg>>
        /\ elast.op = "validate" => elast'.err = elast.err]_vars

\* C12 witness: validate succeeded on a warmed engine whose backing store
\* holds what an earlier run wrote.
C12_Witness ==
    /\ elast.op = "validate" /\ elast.out = "ok"
    /\ loaded_core(Engine)
    /\ storage /= EmptyMap

\* C13 (as stated): validate, run_deploy and run_handle called on an engine
\* that is not warmed return an error, run no script function and write
\* nothing to the backing store.
C13_NotWarmedRejected ==
    (elast.op \in {"validate", "run_deploy", "run_handle"} /\ ~loaded_core(Engine)) =>
        /\ elast.out = "err"
        /\ elast.calls = 0
        /\ elast.written = EmptyMap

\* C14 (as stated): on a warmed engine run_handle invokes the program's
\* zero-argument handle exactly once and run_deploy its deploy exactly once;
\* with handle() { storage_set("k", "v"); } a successful load_core followed by
\* run_handle succeeds and leaves "k" mapped to "v" in the backing store.
C14_RunInvokesEndpoint ==
    loaded_core(Engine) =>
        /\ (elast.op = "run_handle" /\ <<"handle", 0>> \in DOMAIN Unwrap(rh_ast).fns) =>
              /\ elast.fn = "handle" /\ elast.calls = 1
              /\ Unwrap(rh_ast).fns[<<"handle", 0>>].body = <<StorageSet(Key_k, "v")>> =>
                    /\ elast.out = "ok"
                    /\ Key_k \in DOMAIN storage /\ storage[Key_k] = "v"
        /\ (elast.op = "run_deploy" /\ <<"deploy", 0>> \in DOMAIN Unwrap(rh_ast).fns) =>
              (elast.fn = "deploy" /\ elast.calls = 1)

\* C15 (as stated): when the most recent load_core returned an error the
\* engine is not warmed.
C15_FailedLoadNotWarmed ==
    (elast.op = "load_core" /\ elast.out = "err") => ~loaded_core(Engine)

\* C16: when the script function run_handle invokes raises an error, also
\* after it performed storage_set writes, run_handle returns the execution
\* error naming the handle endpoint, and the backing store holds every write
\* performed before the error and is otherwise as it was.
C16_NoRollback ==
    [][(elast'.op = "run_handle" /\ elast'.out = "err" /\ elast'.calls >= 1) =>
        /\ elast'.err.stage = "run"
        /\ elast'.err.key = <<"handle">>
        /\ \A k \in DOMAIN elast'.written :
              k \in DOMAIN storage' /\ storage'[k] = elast'.written[k]
        /\ \A k \in DOMAIN storage \ DOMAIN elast'.written :
              k \in DOMAIN storage' /\ storage'[k] = storage[k]
        /\ DOMAIN storage' = DOMAIN storage \cup DOMAIN elast'.written]_vars

\* C16 witness: run_handle failed after the script had written "k".
C16_Witness ==
    /\ elast.op = "run_handle" /\ elast.out = "err"
    /\ elast.err.key = <<"handle">>
    /\ elast.written = (Key_k :> "v")
    /\ Key_k \in DOMAIN storage /\ storage[Key_k] = "v"

\* C17: load_core with bytes that are not an archive returns the archive
\* error and leaves the held resolver, the installed resolver, the program,
\* the config, the call cache, the global context and the store as they were.
C17_InvalidArchiveChangesNothing ==
    [][(elast'.op = "load_core" /\ loads' = loads + 1 /\ ~Cores[elast'.core].zip_ok) =>
        /\ elast'.err = EngineErr("load", "failed to load core", <<>>)
        /\ UNCHANGED <<rh_engine, registered, storage, rh_resolver, rh_ast, rh_caches,
                       rh_global, cfg>>]_vars

\* C17 witness: load_core of bytes that are not an archive failed on an
\* engine that an earlier load_core had warmed.
C17_Witness ==
    /\ elast.op = "load_core" /\ elast.err.stage = "load"
    /\ ~Cores[elast.core].zip_ok
    /\ loaded_core(Engine) /\ IsSome(rh_engine) /\ IsSome(cfg)

\* The segments 1..i of a key path joined with '.'.
RECURSIVE C18_Join(_, _)
C18_Join(key_path, i) ==
    IF i = 1 THEN key_path[1].v
    ELSE C18_Join(key_path, i - 1) \o <<DOT>> \o key_path[i].v

\* C18 (as stated): storage_set(segments, value) writes value under the
\* segments joined with '.', the key the string form writes when called with
\* the joined string; with no segments, or a segment that is not a string,
\* it fails and leaves the backing store as it was.
C18_PathWritesJoinedKey ==
    [][elast'.op = "storage_set_path" =>
        IF elast'.arg = <<>> \/ \E i \in 1..Len(elast'.arg) : elast'.arg[i].t /= "str"
        THEN elast'.out = "err" /\ storage' = storage
        ELSE /\ elast'.out = "ok"
             /\ storage' = host_storage_set(storage, C18_Join(elast'.arg, Len(elast'.arg)),
                                            elast'.val).store]_vars

\* The entrypoint paths of the config of core c, none when it has no list.
C19_Eps(c) ==
    IF /\ Cores[c].zip_ok /\ Cores[c].config.state = "ok"
       /\ K_global \in DOMAIN Cores[c].config.doc
       /\ K_entrypoints \in DOMAIN Cores[c].config.doc[K_global].v
    THEN [i \in 1..Len(Cores[c].config.doc[K_global].v[K_entrypoints].v) |->
              Cores[c].config.doc[K_global].v[K_entrypoints].v[i].v \o <<DOT>> \o RHAI_EXTENSION]
    ELSE <<>>

\* The scope entrypoint i of core c is compiled against: ENV and the
\* constants declared by the entrypoints before it.
RECURSIVE C19_ScopeBefore(_, _)
C19_ScopeBefore(c, i) ==
    IF i = 1 THEN <<"ENV">>
    ELSE C19_ScopeBefore(c, i - 1)
         \o (IF C19_Eps(c)[i - 1] \in DOMAIN Cores[c].files
             THEN Cores[c].files[C19_Eps(c)[i - 1]].consts ELSE <<>>)

\* Whether entrypoint i of core c can be read and compiles in that scope.
C19_Compiles(c, i) ==
    /\ C19_Eps(c)[i] \in DOMAIN Cores[c].files
    /\ Cores[c].files[C19_Eps(c)[i]].utf8
    /\ Cores[c].files[C19_Eps(c)[i]].parses
    /\ \A u \in Cores[c].files[C19_Eps(c)[i]].uses :
          \E j \in 1..Len(C19_ScopeBefore(c, i + 1)) : C19_ScopeBefore(c, i + 1)[j] = u

\* The entrypoints of core c that fail.
C19_Failing(c) == {i \in 1..Len(C19_Eps(c)) : ~C19_Compiles(c, i)}

\* C19 (as stated): the entrypoints are compiled in declaration order, each
\* with the constants of the earlier ones in scope; on a function-name
\* collision the later entrypoint's definition is exposed; the accumulated
\* scope becomes the resolver's scope; when an entrypoint cannot be read or
\* compiled the call fails with an error naming that entrypoint's path and
\* the resolver's scope is not updated.
C19_EntrypointsInOrder ==
    [][(elast'.op = "load_core" /\ loads' = loads + 1 /\ C19_Eps(elast'.core) /= <<>>) =>
        IF C19_Failing(elast'.core) = {}
        THEN /\ elast'.err.stage /= "init"
             /\ Unwrap(rh_resolver').scope =
                    C19_ScopeBefore(elast'.core, Len(C19_Eps(elast'.core)) + 1)
             /\ \A i \in 1..Len(C19_Eps(elast'.core)) :
                    \A k \in DOMAIN Cores[elast'.core].files[C19_Eps(elast'.core)[i]].fns :
                        /\ k \in DOMAIN Unwrap(rh_ast').fns
                        /\ Unwrap(rh_ast').fns[k].origin[1] = elast'.core
                        /\ Unwrap(rh_ast').fns[k].origin[2] >= i
        ELSE /\ elast'.err.stage = "init"
             /\ elast'.err.key =
                    C19_Eps(elast'.core)[CHOOSE i \in C19_Failing(elast'.core) :
                                             \A j \in C19_Failing(elast'.core) : i <= j]
             /\ Unwrap(rh_resolver').scope = <<"ENV">>]_vars

\* C20 (as stated): load_core validates cortex.name and cortex.version
\* before it compiles any entrypoint or stores a program: with a config that
\* fails validation the call fails with the config error, whatever the
\* entrypoints are, and the engine's program is as it was before the call.
C20_ConfigValidatedFirst ==
    [][(/\ elast'.op = "load_core" /\ loads' = loads + 1
        /\ Cores[elast'.core].zip_ok /\ Cores[elast'.core].config.state = "ok"
        /\ ~(/\ C9_IsStr(Cores[elast'.core].config.doc, K_name)
             /\ C9_IsStr(Cores[elast'.core].config.doc, K_version))) =>
        /\ elast'.err.stage = "config"
        /\ rh_ast' = rh_ast]_vars

\* The engine calls an operation made before its call number i.
C21_Before(i, call) == \E j \in 1..(i - 1) : elast.steps[j] = Step(call, TRUE)

\* C21 (as stated): in every execution of the public deploy and handle
\* operations, a run of an endpoint is preceded by a successful load_core and
\* a successful validate on the same engine.
C21_ValidatedBeforeRun ==
    elast.op \in {"deploy", "handle"} =>
        \A i \in 1..Len(elast.steps) :
            elast.steps[i].call \in {"run_deploy", "run_handle"} =>
                (C21_Before(i, "load_core") /\ C21_Before(i, "validate"))

\* C22 (as stated): a resolve of x, whose file imports x itself, terminates
\* and returns a resolution error; the process does not abort.
C22_CyclicImportFails ==
    (last.op \in Resolves /\ last.path = P_x) => (last.out = "err" /\ ~crashed)

\* The module of the last cache insert made for a path.
C23_LastInserted(file_path) ==
    LET at == {i \in 1..Len(inserts) : inserts[i].file_path = file_path}
    IN  inserts[CHOOSE i \in at : \A j \in at : j <= i].module

\* C23 (as stated): when two threads have each resolved the same path, both
\* having found it uncached, and its file is in the archive and compiles,
\* both calls returned a module, and the cache holds for the path the module
\* of the thread that inserted last.
C23_RacingResolvesSucceed ==
    \A t \in Threads, u \in Threads :
        (/\ t /= u
         /\ pc[t] \in {"done", "panicked"} /\ pc[u] \in {"done", "panicked"}
         /\ tcall[t].file_path = tcall[u].file_path
         /\ ~tcall[t].hit /\ ~tcall[u].hit
         /\ get_file(zip, tcall[t].file_path).ok
         /\ compile_with_scope(zip, tcall[t].file_path)) =>
            /\ tcall[t].out = "ok" /\ tcall[u].out = "ok"
            /\ tcall[t].file_path \in DOMAIN cache
            /\ cache[tcall[t].file_path] = C23_LastInserted(tcall[t].file_path)

\* C24: the call cache and global context are replaced by new ones exactly
\* by a load_core that succeeds (its warm-up creates them); a load_core that
\* fails, validate, run_deploy and run_handle leave the engine holding the
\* same two objects, whether the call succeeds or fails.
C24_ExecutionStateKept ==
    [][/\ elast'.op \in {"validate", "run_deploy", "run_handle"} =>
              (rh_caches' = rh_caches /\ rh_global' = rh_global)
       /\ (elast'.op = "load_core" /\ loads' = loads + 1) =>
              IF elast'.out = "ok"
              THEN /\ rh_caches' = Some(loads') /\ rh_caches' /= rh_caches
                   /\ rh_global' = Some(loads') /\ rh_global' /= rh_global
              ELSE rh_caches' = rh_caches /\ rh_global' = rh_global]_vars

\* C24 witness: a run_handle that failed on an engine warmed by its second
\* load_core left it holding the call cache and global context of that load.
C24_Witness ==
    /\ elast.op = "run_handle" /\ elast.out = "err" /\ elast.calls >= 1
    /\ loads = 2
    /\ rh_caches = Some(2) /\ rh_global = Some(2)

\* C25: a load_core that succeeds leaves as the resolver's scope ENV and
\* the constants of the entrypoints, without the bindings of top-level
\* statements; run_handle leaves that scope as it is, and every invocation
\* it makes starts from a scope equal to it, however many came before.
C25_ScopeNeverGrows ==
    [][/\ (elast'.op = "load_core" /\ loads' = loads + 1 /\ elast'.out = "ok") =>
              Unwrap(rh_resolver').scope =
                  C19_ScopeBefore(elast'.core, Len(C19_Eps(elast'.core)) + 1)
       /\ elast'.op = "run_handle" =>
              /\ rh_resolver' = rh_resolver
              /\ elast'.calls >= 1 => elast'.starts = {Unwrap(rh_resolver).scope}]_vars

\* C25 witness: run_handle made every invocation of a function that binds a
\* variable, in a program whose top level binds one, from the scope <<ENV>>.
C25_Witness ==
    /\ elast.op = "run_handle" /\ elast.out = "ok" /\ elast.calls = HANDLE_CALLS
    /\ \E i \in 1..Len(Unwrap(rh_ast).stmts) : Unwrap(rh_ast).stmts[i].op = "let"
    /\ \E i \in 1..Len(Unwrap(rh_ast).fns[<<HANDLE_FN, 0>>].body) :
           Unwrap(rh_ast).fns[<<HANDLE_FN, 0>>].body[i].op = "let"
    /\ elast.starts = {<<"ENV">>}
    /\ Unwrap(rh_resolver).scope = <<"ENV">>

\* C26 (as stated): compile_path_with_scope reads, for an entrypoint name,
\* the archive file that get_file_path gives for that name under the
\* resolver's configured extension, the file an import of the name is read
\* from.
C26_EntrypointUsesExtension ==
    last.op = "compile_path_with_scope" =>
        last.file_path = get_file_path(base_path, extension, last.path, None, None)

\* C27 (as stated): after a load_core that succeeded, the resolver installed
\* in the interpreter has the scope the engine persists, which holds ENV and
\* the constants declared by the entrypoints.
C27_InstalledResolverScope ==
    (elast.op = "load_core" /\ elast.out = "ok") =>
        /\ Unwrap(rh_engine).scope = Unwrap(rh_resolver).scope
        /\ "ENV" \in scope_names(Unwrap(rh_engine).scope)

\* C28 (as stated): after a load_core that succeeded, every function of the
\* engine's merged program comes from an entrypoint of the archive that call
\* loaded, whatever load_core calls were made before.
C28_OnlyLatestArchive ==
    (elast.op = "load_core" /\ elast.out = "ok") =>
        \A k \in DOMAIN Unwrap(rh_ast).fns : Unwrap(rh_ast).fns[k].origin[1] = elast.core

\* Whether module m was compiled from the content the loaded archive holds
\* at the module's path.
C29_FromLoadedArchive(m) ==
    /\ loaded(zip)
    /\ m.file \in DOMAIN Archives[Unwrap(zip)]
    /\ Archives[Unwrap(zip)][m.file] = Archives[m.arch][m.file]

\* C29 (as stated): every module in the cache, and every module a resolve
\* returns, was compiled from the content the currently loaded archive holds
\* at its path.
C29_CacheMatchesArchive ==
    /\ \A k \in DOMAIN cache : C29_FromLoadedArchive(cache[k])
    /\ (last.op \in Resolves /\ last.out = "ok") => C29_FromLoadedArchive(Unwrap(last.module))

\* ---------------------------------------------------------------- C30
\* C30: with the single-owner cache, resolve holds no guard on the cache or on
\* the archive while it compiles and evaluates a module: no resolve call ends
\* in a re-entrant borrow failure, and when a call succeeds with caching
\* enabled, the module it compiled and every module a nested resolve compiled
\* for an import are in the cache.
C30_BorrowFailures == {"BorrowError", "BorrowMutError"}

C30_NestedResolveCompletes ==
    last.op \in {"resolve", "resolve_raw"} =>
        /\ last.cause \notin C30_BorrowFailures
        /\ (last.out = "ok" /\ cache_enabled) =>
               \A i \in 1..Len(last.log) :
                   /\ last.log[i].file_path \in DOMAIN cache
                   /\ cache[last.log[i].file_path] = last.log[i].module

\* A resolve succeeded whose module imports another path: the nested resolve
\* read and compiled the import, the outer call compiled its own module, and
\* both are cached.
C30_Witness ==
    /\ last.op = "resolve" /\ last.out = "ok" /\ cache_enabled
    /\ Len(last.log) = 2
    /\ last.log[1].read /\ last.log[2].read
    /\ last.log[1].file_path /= last.log[2].file_path
    /\ last.log[2].file_path = last.file_path
    /\ {last.log[1].file_path, last.log[2].file_path} \subseteq DOMAIN cache

\* ---------------------------------------------------------------- C31
\* C31: resolve_ast called for a path that is absent from the archive, or on
\* a resolver with no archive loaded, returns a module-not-found error to its
\* caller and does not abort the process.
C31_AbsentCauses == {"FileNotFound", "NotReady"}

C31_AbsentPathReturnsError ==
    (last.op = "resolve_ast" /\ last.cause \in C31_AbsentCauses) =>
        /\ ~crashed
        /\ last.out = "err"
        /\ last.err.kind = "ErrorModuleNotFound"
        /\ last.err.path = last.path

====
